---- MODULE Spec2Model ----
(***************************************************************************)
(* A model of the reliability harness of the connectors package:           *)
(*   - RateLimiter (connectors/common/http.py): the token bucket and its   *)
(*     asyncio.Lock, with several tasks calling acquire();                 *)
(*   - with_retry (connectors/common/http.py): the tenacity policy the     *)
(*     decorator builds, around an abstract operation and around           *)
(*     TwitterClient.search_recent, and TwitterCollector.fetch above it;   *)
(*   - the collectors' fetch() and the way each one treats a failure:      *)
(*     PyTrendsCollector (critical and optional sub-fetches),              *)
(*     GNewsCollector (one search, a loop over articles), RedditCollector  *)
(*     and TelegramCollector (a loop over targets), YouTubeCollector (two  *)
(*     asyncio.gather fan-outs);                                           *)
(*   - the pydantic configuration of the client-config and collect-spec    *)
(*     classes.                                                            *)
(*                                                                         *)
(* Each subsystem has its own variables and its own specification; the     *)
(* variables of the other subsystems stay as constructed.                  *)
(*                                                                         *)
(* Time and tokens of the limiter are kept in exact integer units.  One    *)
(* token is Resolution token-units, and one clock tick is the time the     *)
(* bucket needs to refill one token-unit, 60 / (rate * Resolution)         *)
(* seconds.  In these units the code's  elapsed * (rate / 60)  tokens is   *)
(* `elapsed` token-units, its test  tokens < 1  is  tokens < Resolution,   *)
(* and its  (1 - tokens) * (60 / rate)  seconds is  Resolution - tokens    *)
(* ticks.                                                                  *)
(***************************************************************************)
EXTENDS Integers, Sequences, FiniteSets, TLC

\* ------------------------------------------------------------ bounds
NumCallers == 3
MaxCalls == 5
MaxRate == 3
Resolution == 2
MaxTime == 6
MaxAttempts == 4
MaxWaitCfg == 4
MaxTweets == 2
MaxKeywords == 2
MaxArticles == 3
MaxTargets == 3
MaxItems == 2
MaxUrls == 3
MaxChannels == 2
MaxPerChannel == 2
MaxVideos == 3
MaxLength == 2
MaxDuration == 3
MaxEntries == 3
MaxAge == 2
MaxDaysBack == 1
MaxVideosArg == 2
MaxNameLen == 3
MaxSubreddits == 2

Callers == 1..NumCallers

Min(a, b) == IF a <= b THEN a ELSE b
Max(a, b) == IF a >= b THEN a ELSE b

VARIABLES
    \* RateLimiter's fields
    rate,          \* self.rate: requests per minute, the bucket's capacity
    tokens,        \* self.tokens, in token-units
    last_update,   \* self.last_update, in ticks
    locked,        \* self._lock: asyncio.Lock._locked
    waiters,       \* self._lock: asyncio.Lock._waiters, first in first out
    \* the tasks calling acquire()
    pc,            \* per caller: "idle", "waiting" (for the lock), "sleeping" (in the lock)
    wakeAt,        \* when the asyncio.sleep of the caller in the lock is over
    now,           \* time.monotonic(), in ticks since construction
    \* what has been observed so far
    ncalls,        \* acquire() calls issued
    ndone,         \* acquire() calls completed
    nosleep,       \* acquire() calls completed without asyncio.sleep
    tC,            \* completion time of call number rate
    tC1,           \* completion time of call number rate + 1
    idled,         \* time has passed while no caller was asleep in acquire()
    lateCall       \* some acquire() was issued after time 0

VARIABLES
    \* with_retry(max_attempts, min_wait, max_wait) around an operation
    op,             \* the wrapped operation: "generic" or "search_recent"
    max_attempts,
    min_wait,
    max_wait,
    attempt_number, \* tenacity's RetryCallState.attempt_number, from 1
    rpc,            \* the wrapper: "ready", "sleeping", "returned", "raised"
    outcomes,       \* what each invocation of the operation did, in order
    transport,      \* search_recent: what self._client.get did, per invocation
    sleeps,         \* the backoff sleeps, in seconds, in order
    raised,         \* the exception the wrapper's caller receives, or "none"
    last_exc,       \* a RetryError's last_attempt exception, or "none"
    result,         \* the value the wrapper returned, or "none"
    response,       \* search_recent's returned "data": the tweet records
    \* TwitterCollector.fetch above search_recent
    fetchState,     \* "idle" (no collector), "running", "returned", "raised"
    fetchExc,       \* the exception fetch raised, or "none"
    tweets          \* the list fetch returned

retryVars == <<op, max_attempts, min_wait, max_wait, attempt_number, rpc,
               outcomes, transport, sleeps, raised, last_exc, result, response,
               fetchState, fetchExc, tweets>>

limVars == <<rate, tokens, last_update, locked, waiters, pc, wakeAt, now,
             ncalls, ndone, nosleep, tC, tC1, idled, lateCall>>

VARIABLES
    \* PyTrendsCollector.fetch(spec)
    pt_spec,       \* the PyTrendsCollectSpec
    pt_pc,         \* fetch's position: "critical", "related", "region", "returned"
    pt_result,     \* the PyTrendsResult being built, the value fetch returns
    pt_calls,      \* the client methods fetch has awaited, in order
    pt_how         \* how each sub-fetch went: "none" (not attempted), "ok", "empty",
                   \* "fetch" (the request failed), "convert"/"process" (its processing raised)

ptVars == <<pt_spec, pt_pc, pt_result, pt_calls, pt_how>>

VARIABLES
    \* GNewsCollector.fetch(spec)
    gn_pc,            \* fetch's position: "search", "articles", "returned", "raised"
    gn_transport,     \* what the client's GET did, or "none" before the search
    gn_exc,           \* the exception client.search raised, or NoException
    gn_articles_data, \* data["articles"]: the article records of the response
    gn_i,             \* the index of the article the loop is at
    gn_result         \* the GNewsResult being built, the value fetch returns

gnVars == <<gn_pc, gn_transport, gn_exc, gn_articles_data, gn_i, gn_result>>

VARIABLES
    \* RedditCollector.fetch(spec) and TelegramCollector.fetch(spec)
    co_kind,      \* the collector: "reddit", "telegram", or "none" (no such fetch)
    co_targets,   \* len(spec.subreddits) or len(spec.channels): the targets 1..n
    co_pc,        \* fetch's position: "enter", "loop", "returned", "raised"
    co_entry,     \* what the client's __aenter__ met, or "none" before it
    co_t,         \* the index of the target the loop is at
    co_listing,   \* per target handled: what its listing did
    co_items,     \* all_posts / all_messages: <<target, position>> of each item
    co_exc        \* the exception fetch raised, or "none"

coVars == <<co_kind, co_targets, co_pc, co_entry, co_t, co_listing, co_items, co_exc>>

VARIABLES
    \* YouTubeCollector.fetch(spec)
    yt_spec,      \* the YouTubeCollectSpec
    yt_pc,        \* fetch's position: "start", "channels" (awaiting the first
                  \* gather), "videos" (awaiting the second), "returned"
    yt_chan,      \* per channel: its get_channel_videos task
    yt_all_urls,  \* all_urls
    yt_task,      \* per URL of all_urls: its _process_video task
    yt_videos     \* the list fetch returned

ytVars == <<yt_spec, yt_pc, yt_chan, yt_all_urls, yt_task, yt_videos>>

VARIABLES
    \* one object of a client-config or collect-spec class
    cfg_class,    \* its class
    cfg_obj,      \* its fields' values
    cfg_last      \* the last `obj.field = value` statement and whether it raised

cfgVars == <<cfg_class, cfg_obj, cfg_last>>

VARIABLES
    \* YouTubeCollector._process_video(url) and the YouTubeClient under it
    vd_config,        \* the YouTubeClientConfig
    vd_whisper_model, \* client._whisper_model is set (a model is loaded)
    vd_url,           \* the URL: "valid" or "invalid" (no video id in it)
    vd_pc,            \* where the call is: "start", "metadata", "api", "download",
                      \* "transcribe" (awaiting that step), "done"
    vd_duration,      \* metadata['duration'], -1 before get_video_metadata returned
    vd_calls,         \* the steps begun, in order
    vd_api,           \* the YouTube Transcript API attempt: "none", "ok", "failed"
    vd_whisper,       \* the Whisper attempt: "none", "ok", "no_audio", "failed"
    vd_temp,          \* the TemporaryDirectory: "none", "exists", "removed"
    vd_transcript,    \* how get_transcript ended
    vd_video          \* the YouTubeVideo returned

vdVars == <<vd_config, vd_whisper_model, vd_url, vd_pc, vd_duration, vd_calls,
            vd_api, vd_whisper, vd_temp, vd_transcript, vd_video>>

VARIABLES
    \* YouTubeClient.get_channel_videos(channel_name, max_videos, days_back)
    cv_max_videos,
    cv_days_back,
    cv_pc,         \* "start", "returned", "raised"
    cv_entries,    \* info['entries'] as yt-dlp listed them, newest first
    cv_urls        \* the list returned: the entry each URL is built from

cvVars == <<cv_max_videos, cv_days_back, cv_pc, cv_entries, cv_urls>>

VARIABLES
    \* TelegramCollector.fetch(spec): TelegramClient.__aenter__, the channel
    \* loop, TelegramClient.__aexit__
    tg_config,     \* which of phone, auth_code_callback, auth_password_callback are set
    tg_channels,   \* len(spec.channels)
    tg_pc,         \* the await fetch is at: "connect", "is_user_authorized",
                   \* "send_code_request", "auth_code_callback", "sign_in",
                   \* "recheck", "auth_password_callback", "sign_in_password",
                   \* "body", or "returned", "raised"
    tg_connected,  \* the Telethon client: "never", "connected", "disconnected"
    tg_session,    \* what the first is_user_authorized answered: "unknown",
                   \* "authorized", "unauthorized"
    tg_sign_in,    \* what sign_in(phone, code) did: "none", "ok", or the exception
    tg_calls,      \* the client methods and callbacks awaited, in order
    tg_c,          \* the index of the channel the loop is at
    tg_exc         \* the exception fetch raised, or "none"

tgVars == <<tg_config, tg_channels, tg_pc, tg_connected, tg_session, tg_sign_in,
            tg_calls, tg_c, tg_exc>>

VARIABLES
    \* RedditCollectSpec(subreddits=...)
    rs_pc,         \* "new" (the constructor has not run), "constructed"
    rs_given,      \* the subreddits argument: names as sequences of characters
    rs_subreddits  \* spec.subreddits

rsVars == <<rs_pc, rs_given, rs_subreddits>>

VARIABLES
    \* RedditCollector.fetch(spec) over a RedditClient with its RateLimiter
    rd_rate_limit,        \* config.rate_limit
    rd_rate_limiter,      \* client._rate_limiter is set
    rd_subreddits,        \* len(spec.subreddits)
    rd_include_comments,  \* spec.include_comments
    rd_pc,                \* the await fetch is at: "enter", "acquire", "listing",
                          \* "comments", or "returned", "raised"
    rd_s,                 \* the index of the subreddit the loop is at
    rd_left,              \* submissions of that subreddit still to process
    rd_events             \* acquire() calls and returns and requests issued, in order

rdVars == <<rd_rate_limit, rd_rate_limiter, rd_subreddits, rd_include_comments,
            rd_pc, rd_s, rd_left, rd_events>>

\* What the actions of one subsystem leave alone.
exceptLim == <<retryVars, ptVars, gnVars, coVars, ytVars, cfgVars, vdVars, cvVars, tgVars, rsVars, rdVars>>
exceptRetry == <<limVars, ptVars, gnVars, coVars, ytVars, cfgVars, vdVars, cvVars, tgVars, rsVars, rdVars>>
exceptPt == <<limVars, retryVars, gnVars, coVars, ytVars, cfgVars, vdVars, cvVars, tgVars, rsVars, rdVars>>
exceptGn == <<limVars, retryVars, ptVars, coVars, ytVars, cfgVars, vdVars, cvVars, tgVars, rsVars, rdVars>>
exceptCo == <<limVars, retryVars, ptVars, gnVars, ytVars, cfgVars, vdVars, cvVars, tgVars, rsVars, rdVars>>
exceptYt == <<limVars, retryVars, ptVars, gnVars, coVars, cfgVars, vdVars, cvVars, tgVars, rsVars, rdVars>>
exceptCfg == <<limVars, retryVars, ptVars, gnVars, coVars, ytVars, vdVars, cvVars, tgVars, rsVars, rdVars>>
exceptVd == <<limVars, retryVars, ptVars, gnVars, coVars, ytVars, cfgVars, cvVars, tgVars, rsVars, rdVars>>
exceptCv == <<limVars, retryVars, ptVars, gnVars, coVars, ytVars, cfgVars, vdVars, tgVars, rsVars, rdVars>>
exceptTg == <<limVars, retryVars, ptVars, gnVars, coVars, ytVars, cfgVars, vdVars, cvVars, rsVars, rdVars>>
exceptRs == <<limVars, retryVars, ptVars, gnVars, coVars, ytVars, cfgVars, vdVars, cvVars, tgVars, rdVars>>
exceptRd == <<limVars, retryVars, ptVars, gnVars, coVars, ytVars, cfgVars, vdVars, cvVars, tgVars, rsVars>>

\* ------------------------------------------------------- RateLimiter

\* One token, in token-units.
OneToken == Resolution

\* self.rate, in token-units: the bucket's capacity.
Capacity == rate * Resolution

\* The refill without its cap at the capacity.
ReplenishedUncapped(tok, elapsed) == tok + elapsed

\* min(self.rate, self.tokens + elapsed * (self.rate / 60))
Replenished(tok, elapsed) == Min(Capacity, tok + elapsed)

\* A sleep that waits for the missing tokens at twice the refill rate.
SleepTimeHalved(tok) == (OneToken - tok) \div 2

\* (1 - self.tokens) * (60 / self.rate)
SleepTime(tok) == OneToken - tok

\* self.tokens after the sleep of an acquire that had to wait.
TokensAfterSleep == 0

\* __init__ with requests_per_minute drawn from Rates: a full bucket.
LimiterConstructed(Rates) ==
    /\ rate \in Rates
    /\ tokens = rate * Resolution
    /\ last_update = 0
    /\ locked = FALSE
    /\ waiters = << >>
    /\ pc = [p \in Callers |-> "idle"]
    /\ wakeAt = 0
    /\ now = 0
    /\ ncalls = 0
    /\ ndone = 0
    /\ nosleep = 0
    /\ tC = 0
    /\ tC1 = 0
    /\ idled = FALSE
    /\ lateCall = FALSE

\* Bookkeeping of one completed acquire().
Completed(slept) ==
    /\ ndone' = ndone + 1
    /\ nosleep' = IF slept THEN nosleep ELSE nosleep + 1
    /\ tC' = IF ndone + 1 = rate THEN now ELSE tC
    /\ tC1' = IF ndone + 1 = rate + 1 THEN now ELSE tC1

\* The body of `async with self._lock:` up to its first suspension, run by
\* caller p that has just taken the lock: refill, then either debit and
\* leave (releasing the lock) or start the sleep, the lock still held.
LockedStep(p) ==
    LET refilled == Replenished(tokens, now - last_update) IN
    /\ last_update' = now
    /\ IF refilled < OneToken
       THEN /\ tokens' = refilled
            /\ wakeAt' = now + SleepTime(refilled)
            /\ locked' = TRUE
            /\ pc' = [pc EXCEPT ![p] = "sleeping"]
            /\ UNCHANGED <<ndone, nosleep, tC, tC1>>
       ELSE /\ tokens' = refilled - OneToken
            /\ locked' = FALSE
            /\ pc' = [pc EXCEPT ![p] = "idle"]
            /\ Completed(FALSE)
            /\ UNCHANGED wakeAt

\* asyncio.Lock.acquire takes a free lock at once only when nobody waits.
LockFree == ~locked /\ waiters = << >>

\* A task calls acquire(): it takes the free lock and runs the locked step,
\* or it queues behind the holder and the earlier waiters.
Call(p) ==
    /\ pc[p] = "idle"
    /\ ncalls < MaxCalls
    /\ ncalls' = ncalls + 1
    /\ lateCall' = (lateCall \/ now > 0)
    /\ \/ /\ LockFree
          /\ LockedStep(p)
          /\ UNCHANGED waiters
       \/ /\ ~LockFree
          /\ waiters' = Append(waiters, p)
          /\ pc' = [pc EXCEPT ![p] = "waiting"]
          /\ UNCHANGED <<tokens, last_update, locked, wakeAt, ndone, nosleep, tC, tC1>>
    /\ UNCHANGED <<rate, now, idled>>
    /\ UNCHANGED exceptLim

\* The first waiter is resumed once the lock has been released.
Enter(p) ==
    /\ ~locked
    /\ waiters /= << >>
    /\ p = Head(waiters)
    /\ waiters' = Tail(waiters)
    /\ LockedStep(p)
    /\ UNCHANGED <<rate, now, ncalls, idled, lateCall>>
    /\ UNCHANGED exceptLim

WakeKeepsLock(p) ==
    /\ pc[p] = "sleeping"
    /\ now >= wakeAt
    /\ tokens' = TokensAfterSleep
    /\ locked' = locked
    /\ pc' = [pc EXCEPT ![p] = "idle"]
    /\ Completed(TRUE)
    /\ UNCHANGED <<rate, last_update, waiters, wakeAt, now, ncalls, idled, lateCall>>
    /\ UNCHANGED exceptLim

\* The sleep of the caller in the lock is over: tokens = 0, leave the lock.
Wake(p) ==
    /\ pc[p] = "sleeping"
    /\ now >= wakeAt
    /\ tokens' = TokensAfterSleep
    /\ locked' = FALSE
    /\ pc' = [pc EXCEPT ![p] = "idle"]
    /\ Completed(TRUE)
    /\ UNCHANGED <<rate, last_update, waiters, wakeAt, now, ncalls, idled, lateCall>>
    /\ UNCHANGED exceptLim

\* The monotonic clock advances by one tick.  A sleeping task is resumed at
\* or after its deadline, never before.
Tick ==
    /\ now < MaxTime
    /\ now' = now + 1
    /\ idled' = (idled \/ \A p \in Callers : pc[p] /= "sleeping")
    /\ UNCHANGED <<rate, tokens, last_update, locked, waiters, pc, wakeAt,
                   ncalls, ndone, nosleep, tC, tC1, lateCall>>
    /\ UNCHANGED exceptLim

NextLimiter ==
    \/ \E p \in Callers : Call(p)
    \/ \E p \in Callers : Enter(p)
    \/ \E p \in Callers : Wake(p)
    \/ Tick


\* -------------------------------------------------------- with_retry

\* The defaults of with_retry, and the decorator on search_recent.
DefaultMinWait == 1
DefaultMaxWait == 10
SearchMaxAttempts == 3

\* httpx.HTTPError and the subclasses of it the model raises.
HttpxRequestErrors == {"httpx.TimeoutException", "httpx.ConnectError"}
HttpxErrors == {"httpx.HTTPError", "httpx.HTTPStatusError"} \cup HttpxRequestErrors

\* ConnectorError's subclasses.
ConnectorErrors ==
    {"AuthenticationError", "RateLimitError", "InvalidConfigError", "DataFetchError"}

\* What an invocation of the abstract operation may do: return one of these
\* values or raise one of these exceptions.  search_recent returns "data".
Values == {"v1", "v2"}
IsValue(o) == o \in Values \cup {"data"}
GenericRaises ==
    {"httpx.ConnectError", "asyncio.TimeoutError"} \cup ConnectorErrors

\* What self._client.get may do inside search_recent: an HTTP response with
\* this status, or an exception of the transport.
TransportOutcomes ==
    {"200", "401", "429", "404", "500",
     "httpx.TimeoutException", "httpx.ConnectError", "asyncio.TimeoutError"}

\* The tweet records of a response: well-formed, or lacking a required key.
TweetKinds == {"good", "malformed"}
Responses == UNION {[1..n -> TweetKinds] : n \in 0..MaxTweets}

RECURSIVE Pow2(_)
Pow2(n) == IF n <= 0 THEN 1 ELSE 2 * Pow2(n - 1)

\* A policy that retries on every exception.
RetryIfAnyException(e) == TRUE

\* A policy that retries on httpx.HTTPError alone.
RetryIfHttpxOnly(e) == e \in HttpxErrors

\* retry_if_exception_type((httpx.HTTPError, asyncio.TimeoutError))
RetryIfExceptionType(e) == e \in HttpxErrors \cup {"asyncio.TimeoutError"}

\* A policy that stops one attempt late.
StopAfterAttemptExclusive(n) == n > max_attempts

\* stop_after_attempt(max_attempts): attempt_number >= max_attempt_number
StopAfterAttempt(n) == n >= max_attempts

\* A backoff whose exponent is the attempt number itself.
WaitExponentialFromAttempt(n) == Max(Max(0, min_wait), Min(1 * Pow2(n), max_wait))

\* wait_exponential(multiplier=1, min=min_wait, max=max_wait), exp_base 2:
\* max(max(0, min), min(multiplier * 2 ** (attempt_number - 1), max))
WaitExponential(n) == Max(Max(0, min_wait), Min(1 * Pow2(n - 1), max_wait))

\* What the caller receives once the policy stops: tenacity's retry() is
\* built without reraise=True, so it raises RetryError from the last attempt.
ExhaustedRaises(e) == "RetryError"

\* search_recent's try block on one transport outcome: the exception raised
\* in it, or "none" when it reaches `return data`.
SearchRecentTry(h) ==
    CASE h = "401" -> "AuthenticationError"
      [] h = "429" -> "RateLimitError"
      [] h \in {"404", "500"} -> "httpx.HTTPStatusError"    \* raise_for_status()
      [] h = "200" -> "none"
      [] OTHER -> h                                          \* raised by get()

\* search_recent's except clauses: httpx.HTTPStatusError and
\* httpx.RequestError become DataFetchError, anything else passes.
SearchRecentExcept(e) ==
    IF e = "httpx.HTTPStatusError" \/ e \in HttpxRequestErrors
    THEN "DataFetchError"
    ELSE e

\* One invocation of search_recent's body: "data" or the exception it raises.
SearchRecentBody(h) ==
    LET e == SearchRecentTry(h) IN
    IF e = "none" THEN "data" ELSE SearchRecentExcept(e)

\* A wrapper built around one of the operations Ops and not yet called.
RetryConstructed(Ops) ==
    /\ op \in Ops
    /\ IF op = "search_recent"
       THEN /\ max_attempts = SearchMaxAttempts
            /\ min_wait = DefaultMinWait
            /\ max_wait = DefaultMaxWait
            /\ fetchState = "running"
       ELSE /\ max_attempts \in 1..MaxAttempts
            /\ \/ /\ max_wait \in 0..MaxWaitCfg
                  /\ min_wait \in 0..max_wait
               \/ /\ min_wait = DefaultMinWait
                  /\ max_wait = DefaultMaxWait
            /\ fetchState = "idle"
    /\ attempt_number = 1
    /\ rpc = "ready"
    /\ outcomes = << >>
    /\ transport = << >>
    /\ sleeps = << >>
    /\ raised = "none"
    /\ last_exc = "none"
    /\ result = "none"
    /\ response = << >>
    /\ fetchExc = "none"
    /\ tweets = << >>

\* tenacity's iter() on the outcome o of the attempt just made: return the
\* value, raise an exception the policy does not match, stop with RetryError,
\* or sleep the backoff and count the next attempt.
Iter(o) ==
    IF IsValue(o)
    THEN /\ rpc' = "returned"
         /\ result' = o
         /\ UNCHANGED <<attempt_number, sleeps, raised, last_exc>>
    ELSE IF ~RetryIfExceptionType(o)
    THEN /\ rpc' = "raised"
         /\ raised' = o
         /\ UNCHANGED <<attempt_number, sleeps, last_exc, result>>
    ELSE IF StopAfterAttempt(attempt_number)
    THEN /\ rpc' = "raised"
         /\ raised' = ExhaustedRaises(o)
         /\ last_exc' = o
         /\ UNCHANGED <<attempt_number, sleeps, result>>
    ELSE /\ rpc' = "sleeping"
         /\ sleeps' = Append(sleeps, WaitExponential(attempt_number))
         /\ attempt_number' = attempt_number + 1
         /\ UNCHANGED <<raised, last_exc, result>>

\* The wrapper invokes the abstract operation, which returns or raises o.
AttemptGeneric ==
    /\ op = "generic"
    /\ rpc = "ready"
    /\ \E o \in Values \cup GenericRaises :
          /\ outcomes' = Append(outcomes, o)
          /\ Iter(o)
    /\ UNCHANGED <<op, max_attempts, min_wait, max_wait, transport, response,
                   fetchState, fetchExc, tweets>>
    /\ UNCHANGED exceptRetry

\* The wrapper invokes search_recent, whose request self._client.get answers
\* with h and, for a 200, with the tweet records d.
AttemptSearch ==
    /\ op = "search_recent"
    /\ rpc = "ready"
    /\ \E h \in TransportOutcomes, d \in Responses :
          /\ (h /= "200") => d = << >>
          /\ transport' = Append(transport, h)
          /\ outcomes' = Append(outcomes, SearchRecentBody(h))
          /\ response' = d
          /\ Iter(SearchRecentBody(h))
    /\ UNCHANGED <<op, max_attempts, min_wait, max_wait, fetchState, fetchExc, tweets>>
    /\ UNCHANGED exceptRetry

\* The backoff sleep is over: the next attempt may start.
BackoffDone ==
    /\ rpc = "sleeping"
    /\ rpc' = "ready"
    /\ UNCHANGED <<op, max_attempts, min_wait, max_wait, attempt_number, outcomes,
                   transport, sleeps, raised, last_exc, result, response,
                   fetchState, fetchExc, tweets>>
    /\ UNCHANGED exceptRetry

\* TwitterCollector.fetch after `await client.search_recent(...)`: an
\* exception leaves the `async with` and fetch; a response is turned into
\* Tweet objects, tweet_data["created_at"] and its like raising KeyError on a
\* record that lacks the key.
FetchFinish ==
    /\ fetchState = "running"
    /\ rpc \in {"returned", "raised"}
    /\ IF rpc = "raised"
       THEN /\ fetchState' = "raised"
            /\ fetchExc' = raised
            /\ UNCHANGED tweets
       ELSE IF \E i \in 1..Len(response) : response[i] = "malformed"
       THEN /\ fetchState' = "raised"
            /\ fetchExc' = "KeyError"
            /\ UNCHANGED tweets
       ELSE /\ fetchState' = "returned"
            /\ tweets' = response
            /\ UNCHANGED fetchExc
    /\ UNCHANGED <<op, max_attempts, min_wait, max_wait, attempt_number, rpc,
                   outcomes, transport, sleeps, raised, last_exc, result, response>>
    /\ UNCHANGED exceptRetry

NextRetry ==
    \/ AttemptGeneric
    \/ AttemptSearch
    \/ BackoffDone
    \/ FetchFinish

\* ------------------------------------------------- PyTrendsCollector

\* spec.keywords: the keywords 1..n of a request, in order.
KeywordLists == {[i \in 1..n |-> i] : n \in 1..MaxKeywords}

\* The PyTrendsCollectSpec objects of the model.
PyTrendsCollectSpecs ==
    [keywords : KeywordLists,
     timeframe : {"today 3-m", "today 1-m"},
     geo : {"", "US"},
     include_related_queries : BOOLEAN,
     include_interest_by_region : BOOLEAN]

\* PyTrendsCollectSpec(keywords=[...]) with every other field at its default.
DefaultPyTrendsSpec ==
    [keywords |-> <<1>>, timeframe |-> "today 3-m", geo |-> "",
     include_related_queries |-> FALSE, include_interest_by_region |-> FALSE]

\* PyTrendsResult(keywords=spec.keywords, timeframe=spec.timeframe,
\* geo=spec.geo), the other fields at the model's defaults.  The list counts
\* its TrendData points, each dict is given by the set of its keys.
NewPyTrendsResult(spec) ==
    [keywords |-> spec.keywords,
     timeframe |-> spec.timeframe,
     geo |-> spec.geo,
     interest_over_time |-> 0,
     related_queries_top |-> {},
     related_queries_rising |-> {},
     interest_by_region |-> {},
     status |-> "success",
     error |-> "None"]

\* The requests of the model: fetch(spec) called, nothing awaited yet.
PyTrendsConstructed(Specs) ==
    /\ pt_spec \in Specs
    /\ pt_pc = "critical"
    /\ pt_result = NewPyTrendsResult(pt_spec)
    /\ pt_calls = << >>
    /\ pt_how = [critical |-> "none", related |-> "none", region |-> "none"]

\* The exception the critical block raises: get_interest_over_time's
\* DataFetchError, or the error of the DataFrame's conversion.
CriticalRaises(how) == IF how = "fetch" THEN "DataFetchError" ELSE "ValueError"

\* A handler that sets the status and leaves the error unset.
CriticalFailedStatusOnly(res, e) == [res EXCEPT !.status = "failed"]

\* except Exception as e: result.status = "failed"; result.error = f"...{e}"
CriticalFailed(res, e) ==
    [res EXCEPT !.status = "failed",
                !.error = "Failed to fetch interest over time: " \o e]

\* A critical block that goes on to the optional fetches whatever happened.
AfterCriticalGoesOn(how) == "related"

\* Where fetch stands after the critical block: its handler returns the
\* result, its normal end falls through to the optional fetches.
AfterCritical(how) == IF how \in {"fetch", "convert"} THEN "returned" ELSE "related"

\* The assignments an optional block completes: all `full` of them, none
\* when the client's request failed (the client logs the error and returns
\* an empty dict or DataFrame), the first j when the processing raised.
OptionalAssigned(how, full, j) ==
    CASE how = "ok" -> full
      [] how = "fetch" -> 0
      [] OTHER -> j

\* The related-queries loop after its first j assignments: for each keyword
\* in turn, related_queries_top[keyword] and then related_queries_rising[keyword].
RelatedAssigned(res, j) ==
    [res EXCEPT !.related_queries_top = {res.keywords[i] : i \in 1..((j + 1) \div 2)},
                !.related_queries_rising = {res.keywords[i] : i \in 1..(j \div 2)}]

\* The region loop after its first j assignments of interest_by_region[keyword].
RegionAssigned(res, j) ==
    [res EXCEPT !.interest_by_region = {res.keywords[i] : i \in 1..j}]

\* The critical block: get_interest_over_time and the conversion of its
\* DataFrame, which appends j TrendData points before it ends or raises.
PyTrendsCritical ==
    /\ pt_pc = "critical"
    /\ pt_calls' = Append(pt_calls, "get_interest_over_time")
    /\ \E how \in {"ok", "empty", "fetch", "convert"}, j \in 0..Len(pt_spec.keywords) :
          /\ how = "ok" => j = Len(pt_spec.keywords)
          /\ how \in {"empty", "fetch"} => j = 0
          /\ how = "convert" => j < Len(pt_spec.keywords)
          /\ pt_how' = [pt_how EXCEPT !.critical = how]
          /\ pt_pc' = AfterCritical(how)
          /\ LET appended == [pt_result EXCEPT !.interest_over_time = j] IN
             pt_result' = IF how \in {"fetch", "convert"}
                          THEN CriticalFailed(appended, CriticalRaises(how))
                          ELSE appended
    /\ UNCHANGED pt_spec
    /\ UNCHANGED exceptPt

\* `if spec.include_related_queries:` and its try block; its handler only
\* logs, whatever the loop has assigned stays in the result.
PyTrendsRelated ==
    /\ pt_pc = "related"
    /\ pt_pc' = "region"
    /\ IF pt_spec.include_related_queries
       THEN /\ pt_calls' = Append(pt_calls, "get_related_queries")
            /\ \E how \in {"ok", "fetch", "process"},
                  j \in 0..(2 * Len(pt_spec.keywords) - 1) :
                  /\ pt_how' = [pt_how EXCEPT !.related = how]
                  /\ pt_result' = RelatedAssigned(pt_result,
                        OptionalAssigned(how, 2 * Len(pt_spec.keywords), j))
       ELSE UNCHANGED <<pt_calls, pt_how, pt_result>>
    /\ UNCHANGED pt_spec
    /\ UNCHANGED exceptPt

\* `if spec.include_interest_by_region:` and its try block, then
\* result.status = "success" and the return.
PyTrendsRegion ==
    /\ pt_pc = "region"
    /\ pt_pc' = "returned"
    /\ IF pt_spec.include_interest_by_region
       THEN /\ pt_calls' = Append(pt_calls, "get_interest_by_region")
            /\ \E how \in {"ok", "fetch", "process"},
                  j \in 0..(Len(pt_spec.keywords) - 1) :
                  /\ pt_how' = [pt_how EXCEPT !.region = how]
                  /\ pt_result' = [RegionAssigned(pt_result,
                        OptionalAssigned(how, Len(pt_spec.keywords), j))
                                      EXCEPT !.status = "success"]
       ELSE /\ pt_result' = [pt_result EXCEPT !.status = "success"]
            /\ UNCHANGED <<pt_calls, pt_how>>
    /\ UNCHANGED pt_spec
    /\ UNCHANGED exceptPt

NextPyTrends ==
    \/ PyTrendsCritical
    \/ PyTrendsRelated
    \/ PyTrendsRegion

\* ---------------------------------------------------- GNewsCollector

\* What the GET of GNewsClient.search may do: a response with this status
\* ("200 errors": a 200 whose JSON has an "errors" key), or an exception of
\* the transport or of response.json().
GNewsTransportOutcomes ==
    {"200", "200 errors", "401", "403", "429", "500",
     "httpx.ConnectError", "httpx.TimeoutException", "json.JSONDecodeError"}

\* The article records of a response: a dict with every field the collector
\* reads, a dict that lacks one (or holds an unparsable publishedAt), or a
\* JSON value that is no dict at all (null, a string).
ArticleKinds == {"good", "bad_fields", "not_a_dict"}
ArticleLists == UNION {[1..n -> ArticleKinds] : n \in 0..MaxArticles}

NoException == [type |-> "none", message |-> ""]
Exc(t, m) == [type |-> t, message |-> m]

\* search's try block on one transport outcome: the exception raised in it,
\* or NoException when it reaches `return data`.
GNewsSearchTry(h) ==
    CASE h = "401" -> Exc("AuthenticationError", "Invalid GNews API key")
      [] h = "403" -> Exc("AuthenticationError", "GNews API key access forbidden")
      [] h = "429" -> Exc("DataFetchError", "Rate limit exceeded (100 requests/day on free tier)")
      [] h = "500" -> Exc("DataFetchError", "API error: HTTP 500")
      [] h = "200 errors" -> Exc("DataFetchError", "GNews API error: errors")
      [] h = "200" -> NoException
      [] OTHER -> Exc(h, h)                                  \* raised by get() or json()

\* search's except clauses: httpx.HTTPError becomes DataFetchError, an
\* AuthenticationError or DataFetchError passes, any other becomes DataFetchError.
GNewsSearchExcept(e) ==
    IF e.type \in HttpxErrors
    THEN Exc("DataFetchError", "HTTP error: " \o e.message)
    ELSE IF e.type \in {"AuthenticationError", "DataFetchError"}
    THEN e
    ELSE Exc("DataFetchError", "Error fetching articles: " \o e.message)

\* One call of client.search: NoException (data returned) or what it raises.
GNewsSearchBody(h) ==
    LET e == GNewsSearchTry(h) IN
    IF e = NoException THEN NoException ELSE GNewsSearchExcept(e)

\* GNewsResult(query=..., ...) with the model's defaults.  The list holds the
\* positions, in the response, of the articles appended.
NewGNewsResult ==
    [articles |-> << >>, total_articles |-> 0, status |-> "success", error |-> "None"]

\* fetch(spec) called, the search not yet awaited.
GNewsConstructed(Pcs) ==
    /\ gn_pc \in Pcs
    /\ gn_transport = "none"
    /\ gn_exc = NoException
    /\ gn_articles_data = << >>
    /\ gn_i = 1
    /\ gn_result = NewGNewsResult

\* An outer handler that lets an AuthenticationError through.
OuterCatchesDataFetchOnly(e) == e.type = "DataFetchError"

\* fetch's outer `except Exception as e`: every exception the model raises.
OuterCatches(e) == TRUE

\* result.status = "failed"; result.error = str(e)
OuterFailed(res, e) == [res EXCEPT !.status = "failed", !.error = e.message]

\* An exception e reaches the end of fetch's outer try block.
GNewsOuterExcept(e) ==
    IF OuterCatches(e)
    THEN /\ gn_pc' = "returned"
         /\ gn_result' = OuterFailed(gn_result, e)
    ELSE /\ gn_pc' = "raised"
         /\ UNCHANGED gn_result

\* What one pass of the article loop's body ends with: "append", "skip"
\* (the inner handler logged the error), or the exception the inner handler
\* itself raises: its message calls article_data.get(...), which a record
\* that is no dict does not have.
ArticleStep(kind) ==
    CASE kind = "good" -> "append"
      [] kind = "bad_fields" -> "skip"
      [] OTHER -> "AttributeError"

\* `data = await client.search(...)`, then articles_data and total_articles.
GNewsSearch ==
    /\ gn_pc = "search"
    /\ \E h \in GNewsTransportOutcomes, d \in ArticleLists :
          /\ (h /= "200") => d = << >>
          /\ gn_transport' = h
          /\ gn_exc' = GNewsSearchBody(h)
          /\ IF GNewsSearchBody(h) = NoException
             THEN /\ gn_articles_data' = d
                  /\ gn_result' = [gn_result EXCEPT !.total_articles = Len(d)]
                  /\ gn_pc' = "articles"
             ELSE /\ GNewsOuterExcept(GNewsSearchBody(h))
                  /\ UNCHANGED gn_articles_data
    /\ UNCHANGED gn_i
    /\ UNCHANGED exceptGn

\* One pass of `for article_data in articles_data:`.
GNewsArticle ==
    /\ gn_pc = "articles"
    /\ gn_i <= Len(gn_articles_data)
    /\ LET step == ArticleStep(gn_articles_data[gn_i]) IN
       CASE step = "append" ->
              /\ gn_result' = [gn_result EXCEPT !.articles = Append(@, gn_i)]
              /\ gn_i' = gn_i + 1
              /\ UNCHANGED gn_pc
         [] step = "skip" ->
              /\ gn_i' = gn_i + 1
              /\ UNCHANGED <<gn_pc, gn_result>>
         [] OTHER ->
              /\ GNewsOuterExcept(Exc(step, "object has no attribute 'get'"))
              /\ UNCHANGED gn_i
    /\ UNCHANGED <<gn_transport, gn_exc, gn_articles_data>>
    /\ UNCHANGED exceptGn

\* The loop is over: result.status = "success", and the return.
GNewsFinish ==
    /\ gn_pc = "articles"
    /\ gn_i > Len(gn_articles_data)
    /\ gn_result' = [gn_result EXCEPT !.status = "success"]
    /\ gn_pc' = "returned"
    /\ UNCHANGED <<gn_transport, gn_exc, gn_articles_data, gn_i>>
    /\ UNCHANGED exceptGn

NextGNews ==
    \/ GNewsSearch
    \/ GNewsArticle
    \/ GNewsFinish

\* --------------------------------- RedditCollector, TelegramCollector

\* What __aenter__ may meet.  RedditClient: asyncpraw.Reddit(...) returns or
\* raises.  TelegramClient: connect() raises; the session is authorized; it
\* is not and config.phone is empty; the code is asked for and there is no
\* auth_code_callback, or sign_in accepts it, or rejects it, or asks for the
\* 2FA password, with or without an auth_password_callback.
EntryOutcomes(kind) ==
    IF kind = "reddit"
    THEN {"ok", "init_failed"}
    ELSE {"connect_failed", "authorized", "no_phone", "no_code_callback",
          "code_ok", "code_rejected", "password_ok", "no_password_callback"}

\* A client entry that never raises.
EnterNeverRaises(kind, entry) == "none"

\* The exception __aenter__ raises on what it met, or "none".
EnterRaises(kind, entry) ==
    CASE entry \in {"init_failed", "no_phone", "no_code_callback", "no_password_callback"}
           -> "AuthenticationError"
      [] entry = "connect_failed" -> "ConnectionError"
      [] entry = "code_rejected" -> "PhoneCodeInvalidError"
      [] OTHER -> "none"

\* The records of a listing: one the item loop turns into a post or message,
\* or one whose processing raises.
ItemKinds == {"good", "bad"}
ItemLists == UNION {[1..n -> ItemKinds] : n \in 0..MaxItems}

\* What the listing of one target does: it raises, or it returns records.
Listings ==
    {[raised |-> TRUE, records |-> << >>]}
        \cup {[raised |-> FALSE, records |-> r] : r \in ItemLists}

\* The items one target adds: none when its listing raised (the per-target
\* handler logs), else the records whose processing did not raise (the
\* per-item handler logs the others), in listing order.
RECURSIVE Processed(_, _, _)
Processed(t, listing, i) ==
    IF listing.raised THEN << >>
    ELSE IF i > Len(listing.records) THEN << >>
    ELSE IF listing.records[i] = "good" THEN <<(<<t, i>>)>> \o Processed(t, listing, i + 1)
    ELSE Processed(t, listing, i + 1)

\* A target loop that a failed listing ends.
AfterTargetBreaks(t, listing) == IF listing.raised THEN co_targets + 1 ELSE t + 1

\* The target the loop goes to after target t, whatever its listing did.
AfterTarget(t, listing) == t + 1

\* fetch(spec) of one of Kinds called with 1..MaxTargets targets.
CollectorConstructed(Kinds) ==
    /\ co_kind \in Kinds
    /\ co_targets \in (IF co_kind = "none" THEN {0} ELSE 1..MaxTargets)
    /\ co_pc = "enter"
    /\ co_entry = "none"
    /\ co_t = 1
    /\ co_listing = << >>
    /\ co_items = << >>
    /\ co_exc = "none"

\* `async with RedditClient(self.config) as client:` (or TelegramClient):
\* an exception of __aenter__ leaves fetch.
CollectorEnter ==
    /\ co_kind /= "none"
    /\ co_pc = "enter"
    /\ \E entry \in EntryOutcomes(co_kind) :
          /\ co_entry' = entry
          /\ IF EnterRaises(co_kind, entry) = "none"
             THEN /\ co_pc' = "loop"
                  /\ UNCHANGED co_exc
             ELSE /\ co_pc' = "raised"
                  /\ co_exc' = EnterRaises(co_kind, entry)
    /\ UNCHANGED <<co_kind, co_targets, co_t, co_listing, co_items>>
    /\ UNCHANGED exceptCo

\* One pass of `for subreddit_name in spec.subreddits:` (or channels): the
\* listing and the loop over its records.
CollectorTarget ==
    /\ co_pc = "loop"
    /\ co_t <= co_targets
    /\ \E listing \in Listings :
          /\ co_listing' = Append(co_listing, listing)
          /\ co_items' = co_items \o Processed(co_t, listing, 1)
          /\ co_t' = AfterTarget(co_t, listing)
    /\ UNCHANGED <<co_kind, co_targets, co_pc, co_entry, co_exc>>
    /\ UNCHANGED exceptCo

\* The loop is over: `return all_posts` (or all_messages).
CollectorReturn ==
    /\ co_pc = "loop"
    /\ co_t > co_targets
    /\ co_pc' = "returned"
    /\ UNCHANGED <<co_kind, co_targets, co_entry, co_t, co_listing, co_items, co_exc>>
    /\ UNCHANGED exceptCo

\* The three collectors that return a bare list.
NextCollectors ==
    \/ CollectorEnter
    \/ CollectorTarget
    \/ CollectorReturn
    \/ AttemptSearch
    \/ BackoffDone
    \/ FetchFinish

\* -------------------------------------------------- YouTubeCollector

\* spec.urls: each entry a URL validate_youtube_url accepts or rejects.
UrlLists == UNION {[1..n -> {"valid", "invalid"}] : n \in 0..MaxUrls}

\* The YouTubeCollectSpec objects of the model: urls or channels is given
\* (check_at_least_one_source), and at most MaxVideos videos can come of it.
YouTubeCollectSpecs ==
    {sp \in [urls : UrlLists,
             channels : 0..MaxChannels,
             max_videos_per_channel : 1..MaxPerChannel] :
        /\ Len(sp.urls) > 0 \/ sp.channels > 0
        /\ Len(sp.urls) + sp.channels * sp.max_videos_per_channel <= MaxVideos}

\* YouTubeCollectSpec(urls=[one valid URL]).
DefaultYouTubeSpec == [urls |-> <<"valid">>, channels |-> 0, max_videos_per_channel |-> 1]

\* A video URL: entry `of` of spec.urls, or video n of channel `of`.
Url(src, of, n) == [src |-> src, of |-> of, n |-> n]
NoUrl == Url("none", 0, 0)

\* valid_urls: the entries of spec.urls that validate, in order.
RECURSIVE ValidUrls(_, _)
ValidUrls(urls, i) ==
    IF i > Len(urls) THEN << >>
    ELSE IF urls[i] = "valid" THEN <<Url("urls", i, 0)>> \o ValidUrls(urls, i + 1)
    ELSE ValidUrls(urls, i + 1)

\* A channel task not yet finished, and its two ways to finish.
ChannelPending == [done |-> FALSE, raised |-> FALSE, count |-> 0]
ChannelReturned(k) == [done |-> TRUE, raised |-> FALSE, count |-> k]
ChannelRaised == [done |-> TRUE, raised |-> TRUE, count |-> 0]

\* A join that keeps a failed channel as one entry of all_urls.
ChannelUrlsWithPlaceholder(c, r) ==
    IF r.raised THEN <<Url("channel", c, 0)>> ELSE [j \in 1..r.count |-> Url("channel", c, j)]

\* What channel c adds to all_urls: nothing when its task raised (the error
\* is logged), else the URLs its task returned.
ChannelUrls(c, r) ==
    IF r.raised THEN << >> ELSE [j \in 1..r.count |-> Url("channel", c, j)]

\* for channel, result in zip(spec.channels, channel_results): ...
RECURSIVE ChannelsUrls(_, _)
ChannelsUrls(chan, c) ==
    IF c > Len(chan) THEN << >>
    ELSE ChannelUrls(c, chan[c]) \o ChannelsUrls(chan, c + 1)

\* What a _process_video task ends with, and what gather hands back for it:
\* a YouTubeVideo (its url, status and error), or the exception it raised.
NoResult == [isvideo |-> FALSE, url |-> NoUrl, status |-> "none", error |-> "none"]
SuccessVideo(url) == [isvideo |-> TRUE, url |-> url, status |-> "success", error |-> "None"]
FailedVideo(url, e) == [isvideo |-> TRUE, url |-> url, status |-> "failed", error |-> e]
RaisedResult(e) == [isvideo |-> FALSE, url |-> NoUrl, status |-> "none", error |-> e]

\* _process_video's `except Exception as e`: every exception the model raises.
ProcessVideoCatches(e) == TRUE

\* What _process_video on url ends with when its try block raised e ("none":
\* it reached the return of the successful result).
ProcessVideo(url, e) ==
    IF e = "none" THEN SuccessVideo(url)
    ELSE IF ProcessVideoCatches(e) THEN FailedVideo(url, e)
    ELSE RaisedResult(e)

\* A join that keeps the successful videos only.
JoinOneSuccessfulOnly(ret, url) ==
    IF ret.isvideo /\ ret.status = "success" THEN <<ret>> ELSE << >>

\* fetch's loop over the gathered results, one result: a YouTubeVideo is
\* appended as it is, an exception as a failed video of that URL.
JoinOne(ret, url) ==
    IF ret.isvideo THEN <<ret>> ELSE <<FailedVideo(url, ret.error)>>

\* for i, result in enumerate(results): ...
RECURSIVE Joined(_, _, _)
Joined(task, urls, i) ==
    IF i > Len(task) THEN << >>
    ELSE JoinOne(task[i].ret, urls[i]) \o Joined(task, urls, i + 1)

\* fetch(spec) called on one of Specs, nothing done yet.
YouTubeConstructed(Specs) ==
    /\ yt_spec \in Specs
    /\ yt_pc = "start"
    /\ yt_chan = [c \in 1..yt_spec.channels |-> ChannelPending]
    /\ yt_all_urls = << >>
    /\ yt_task = << >>
    /\ yt_videos = << >>

\* all_urls is complete: `if not all_urls: return []`, else one
\* _process_video task per URL, gathered.
LaunchVideos(urls) ==
    /\ yt_all_urls' = urls
    /\ IF urls = << >>
       THEN /\ yt_pc' = "returned"
            /\ yt_videos' = << >>
            /\ UNCHANGED yt_task
       ELSE /\ yt_pc' = "videos"
            /\ yt_task' = [i \in 1..Len(urls) |-> [at |-> "metadata", exc |-> "none", ret |-> NoResult]]
            /\ UNCHANGED yt_videos

\* fetch up to its first await: the valid URLs, then the channel tasks
\* gathered, or with no channels the video tasks at once.
YouTubeStart ==
    /\ yt_pc = "start"
    /\ IF yt_spec.channels > 0
       THEN /\ yt_pc' = "channels"
            /\ yt_all_urls' = ValidUrls(yt_spec.urls, 1)
            /\ UNCHANGED <<yt_task, yt_videos>>
       ELSE LaunchVideos(ValidUrls(yt_spec.urls, 1))
    /\ UNCHANGED <<yt_spec, yt_chan>>
    /\ UNCHANGED exceptYt

\* get_channel_videos of channel c ends: at most max_videos_per_channel
\* URLs, or DataFetchError.
ChannelTask(c) ==
    /\ yt_pc = "channels"
    /\ c <= Len(yt_chan)
    /\ ~yt_chan[c].done
    /\ \E r \in {ChannelRaised} \cup {ChannelReturned(k) : k \in 0..yt_spec.max_videos_per_channel} :
          yt_chan' = [yt_chan EXCEPT ![c] = r]
    /\ UNCHANGED <<yt_spec, yt_pc, yt_all_urls, yt_task, yt_videos>>
    /\ UNCHANGED exceptYt

\* The first gather returns: the channels' URLs are added in spec order.
ChannelsJoined ==
    /\ yt_pc = "channels"
    /\ \A c \in 1..Len(yt_chan) : yt_chan[c].done
    /\ LaunchVideos(yt_all_urls \o ChannelsUrls(yt_chan, 1))
    /\ UNCHANGED <<yt_spec, yt_chan>>
    /\ UNCHANGED exceptYt

\* Task i ends with exception e raised in its try block, or without one.
EndTask(i, e) ==
    yt_task' = [yt_task EXCEPT ![i] =
                   [at |-> "done", exc |-> e, ret |-> ProcessVideo(yt_all_urls[i], e)]]

\* Task i up to its second await: extract_video_id, get_video_metadata and
\* the duration check; each may raise.
VideoMetadata(i) ==
    /\ yt_pc = "videos"
    /\ i <= Len(yt_task)
    /\ yt_task[i].at = "metadata"
    /\ \/ yt_task' = [yt_task EXCEPT ![i].at = "transcript"]
       \/ \E e \in {"ValueError", "DataFetchError"} : EndTask(i, e)
    /\ UNCHANGED <<yt_spec, yt_pc, yt_chan, yt_all_urls, yt_videos>>
    /\ UNCHANGED exceptYt

\* Task i from get_transcript's return or exception to its end: the
\* transcript fetch may raise, and so may the construction of the successful
\* YouTubeVideo from the metadata.
VideoTranscript(i) ==
    /\ yt_pc = "videos"
    /\ i <= Len(yt_task)
    /\ yt_task[i].at = "transcript"
    /\ \E e \in {"none", "DataFetchError", "ValidationError"} : EndTask(i, e)
    /\ UNCHANGED <<yt_spec, yt_pc, yt_chan, yt_all_urls, yt_videos>>
    /\ UNCHANGED exceptYt

\* The second gather returns: the results, in task order, become the list.
VideosJoined ==
    /\ yt_pc = "videos"
    /\ \A i \in 1..Len(yt_task) : yt_task[i].at = "done"
    /\ yt_videos' = Joined(yt_task, yt_all_urls, 1)
    /\ yt_pc' = "returned"
    /\ UNCHANGED <<yt_spec, yt_chan, yt_all_urls, yt_task>>
    /\ UNCHANGED exceptYt

NextYouTube ==
    \/ YouTubeStart
    \/ \E c \in 1..MaxChannels : ChannelTask(c)
    \/ ChannelsJoined
    \/ \E i \in 1..MaxVideos : VideoMetadata(i)
    \/ \E i \in 1..MaxVideos : VideoTranscript(i)
    \/ VideosJoined

\* ------------------------------------- client configs, collect specs

ClientConfigs ==
    {"RedditClientConfig", "TwitterClientConfig", "YouTubeClientConfig",
     "TelegramClientConfig", "GNewsClientConfig", "PyTrendsClientConfig"}

CollectSpecs ==
    {"RedditCollectSpec", "TwitterCollectSpec", "YouTubeCollectSpec",
     "TelegramCollectSpec", "GNewsCollectSpec", "PyTrendsCollectSpec"}

\* The class each class is derived from.
Base(cls) ==
    CASE cls \in ClientConfigs -> "BaseClientConfig"
      [] cls \in CollectSpecs -> "BaseCollectSpec"
      [] OTHER -> "BaseModel"

\* The fields each class declares.
OwnFields(cls) ==
    CASE cls = "BaseClientConfig" -> {"timeout", "rate_limit"}
      [] cls = "BaseCollectSpec" -> {"max_results"}
      [] cls = "RedditClientConfig" ->
            {"client_id", "client_secret", "user_agent", "timeout", "rate_limit"}
      [] cls = "TwitterClientConfig" -> {"bearer_token", "timeout", "rate_limit"}
      [] cls = "YouTubeClientConfig" ->
            {"whisper_model", "max_video_length", "audio_format", "use_transcript_api",
             "transcript_languages", "compute_type", "timeout"}
      [] cls = "TelegramClientConfig" ->
            {"api_id", "api_hash", "session_name", "phone", "timeout",
             "auth_code_callback", "auth_password_callback"}
      [] cls = "GNewsClientConfig" -> {"api_key", "timeout"}
      [] cls = "PyTrendsClientConfig" -> {"timeout", "retries", "backoff_factor"}
      [] cls = "RedditCollectSpec" ->
            {"subreddits", "sort", "time_filter", "max_posts_per_subreddit",
             "include_comments", "max_comment_depth", "skip_stickied"}
      [] cls = "TwitterCollectSpec" -> {"query", "max_results", "start_time", "end_time"}
      [] cls = "YouTubeCollectSpec" ->
            {"urls", "channels", "max_videos_per_channel", "days_back"}
      [] cls = "TelegramCollectSpec" ->
            {"channels", "max_messages_per_channel", "include_replies"}
      [] cls = "GNewsCollectSpec" ->
            {"query", "language", "country", "category", "from_date", "to_date",
             "sort_by", "max_results"}
      [] cls = "PyTrendsCollectSpec" ->
            {"keywords", "timeframe", "geo", "category", "include_related_queries",
             "include_interest_by_region"}
      [] OTHER -> {}

\* The fields of an object of the class: its own and the inherited ones.
Fields(cls) == OwnFields(cls) \cup OwnFields(Base(cls))

\* The settings of the `class Config` written in the class itself.
OwnConfig(cls) ==
    CASE cls = "BaseClientConfig" -> [frozen |-> "True", arbitrary_types_allowed |-> "unset"]
      [] cls = "BaseCollectSpec" -> [frozen |-> "False", arbitrary_types_allowed |-> "unset"]
      [] cls = "TelegramClientConfig" -> [frozen |-> "unset", arbitrary_types_allowed |-> "True"]
      [] OTHER -> [frozen |-> "unset", arbitrary_types_allowed |-> "unset"]

\* BaseModel's configuration.
PydanticDefaults == [frozen |-> "False", arbitrary_types_allowed |-> "False"]

\* A class whose own `class Config` replaces the inherited configuration.
MergeReplaces(b, o) ==
    IF \E k \in DOMAIN o : o[k] /= "unset"
    THEN [k \in DOMAIN b |-> IF o[k] = "unset" THEN PydanticDefaults[k] ELSE o[k]]
    ELSE b

\* pydantic builds a class's configuration from its bases' configuration,
\* updated with the settings of the class's own `class Config`.
Merge(b, o) == [k \in DOMAIN b |-> IF o[k] = "unset" THEN b[k] ELSE o[k]]

\* The configuration of a class, through its base.
ModelConfig(cls) ==
    IF Base(cls) = "BaseModel"
    THEN Merge(PydanticDefaults, OwnConfig(cls))
    ELSE Merge(Merge(PydanticDefaults, OwnConfig(Base(cls))), OwnConfig(cls))

Frozen(cls) == ModelConfig(cls).frozen = "True"

\* The values of a field: the one given at construction, and another.
FieldValues == {"v0", "v1"}
NoAssignment == [field |-> "none", value |-> "none", raised |-> FALSE]

\* An object of one of Classes as constructed.
ConfigConstructed(Classes) ==
    /\ cfg_class \in Classes
    /\ cfg_obj = [f \in Fields(cfg_class) |-> "v0"]
    /\ cfg_last = NoAssignment

\* `obj.f = v` on a field of the object: pydantic's __setattr__ raises on a
\* frozen model and stores the value on any other.
SetAttr(f, v) ==
    /\ f \in DOMAIN cfg_obj
    /\ IF Frozen(cfg_class)
       THEN /\ cfg_last' = [field |-> f, value |-> v, raised |-> TRUE]
            /\ UNCHANGED cfg_obj
       ELSE /\ cfg_last' = [field |-> f, value |-> v, raised |-> FALSE]
            /\ cfg_obj' = [cfg_obj EXCEPT ![f] = v]
    /\ UNCHANGED cfg_class
    /\ UNCHANGED exceptCfg

NextConfig == \E f \in UNION {Fields(c) : c \in ClientConfigs \cup CollectSpecs},
                 v \in FieldValues : SetAttr(f, v)

\* ------------------------------------------------ YouTube: one video

\* The fields of YouTubeClientConfig that _process_video and get_transcript read.
VideoConfigs ==
    [use_transcript_api : BOOLEAN, whisper_model : {"", "base"},
     max_video_length : 1..MaxLength]

DefaultVideoConfig ==
    [use_transcript_api |-> TRUE, whisper_model |-> "base", max_video_length |-> MaxLength]

\* YouTubeClient.__init__: a model is loaded when one is configured, unless
\* loading it raised.
WhisperLoaded(config, init_raises) == config.whisper_model /= "" /\ ~init_raises

Durations == 0..MaxDuration

NoVideo ==
    [status |-> "none", transcript |-> "", transcript_source |-> "", error |-> "None"]
VideoSucceeded(source) ==
    [status |-> "success", transcript |-> "text", transcript_source |-> source,
     error |-> "None"]
VideoFailed(e) ==
    [status |-> "failed", transcript |-> "", transcript_source |-> "", error |-> e]

NoTranscript == [state |-> "none", source |-> "", exc |-> "none"]
TranscriptReturned(source) == [state |-> "returned", source |-> source, exc |-> "none"]
TranscriptRaised(e) == [state |-> "raised", source |-> "", exc |-> e]

VideoConstructed(Configs, Urls, InitRaises) ==
    /\ vd_config \in Configs
    /\ \E init_raises \in InitRaises : vd_whisper_model = WhisperLoaded(vd_config, init_raises)
    /\ vd_url \in Urls
    /\ vd_pc = "start"
    /\ vd_duration = -1
    /\ vd_calls = << >>
    /\ vd_api = "none"
    /\ vd_whisper = "none"
    /\ vd_temp = "none"
    /\ vd_transcript = NoTranscript
    /\ vd_video = NoVideo

\* The duration check of _process_video.
TooLongInclusive(duration, config) == duration >= config.max_video_length
TooLong(duration, config) == duration > config.max_video_length

\* get_transcript's first branch.
UsesApiAlways(config) == TRUE
UsesApi(config) == config.use_transcript_api

\* What leaving the `with tempfile.TemporaryDirectory()` block does to the
\* directory, left by a return or by an exception.
TempAfterWithOnReturnOnly(by_exception) == IF by_exception THEN "exists" ELSE "removed"
TempAfterWith(by_exception) == "removed"

\* _process_video returns the record.
VideoDone(video) ==
    /\ vd_pc' = "done"
    /\ vd_video' = video

\* get_transcript raises e, which _process_video's except clause takes.
TranscriptFails(e) ==
    /\ vd_transcript' = TranscriptRaised(e)
    /\ VideoDone(VideoFailed(e))

\* get_transcript returns (text, source); _process_video builds the YouTubeVideo,
\* whose validation may raise.
TranscriptReturns(source) ==
    /\ vd_transcript' = TranscriptReturned(source)
    /\ \E valid \in BOOLEAN :
          VideoDone(IF valid THEN VideoSucceeded(source) ELSE VideoFailed("ValidationError"))

\* get_transcript after the API block: Whisper when a model is loaded, up to
\* the await of _download_audio inside the TemporaryDirectory; else the raise.
WhisperFallback(calls) ==
    IF vd_whisper_model
    THEN /\ vd_calls' = calls \o <<"_transcribe_with_whisper", "_download_audio">>
         /\ vd_temp' = "exists"
         /\ vd_pc' = "download"
         /\ UNCHANGED <<vd_transcript, vd_video>>
    ELSE /\ vd_calls' = calls
         /\ TranscriptFails("DataFetchError")
         /\ UNCHANGED vd_temp

\* get_transcript up to its first await.
GetTranscript(calls) ==
    IF UsesApi(vd_config)
    THEN /\ vd_calls' = calls \o <<"transcript_api">>
         /\ vd_pc' = "api"
         /\ UNCHANGED <<vd_temp, vd_transcript, vd_video>>
    ELSE WhisperFallback(calls)

\* _process_video up to the await of get_video_metadata.
ProcessStart ==
    /\ vd_pc = "start"
    /\ IF vd_url = "invalid"
       THEN /\ VideoDone(VideoFailed("ValueError"))
            /\ UNCHANGED vd_calls
       ELSE /\ vd_pc' = "metadata"
            /\ vd_calls' = <<"get_video_metadata">>
            /\ UNCHANGED vd_video
    /\ UNCHANGED <<vd_config, vd_whisper_model, vd_url, vd_duration, vd_api,
                   vd_whisper, vd_temp, vd_transcript>>
    /\ UNCHANGED exceptVd

\* get_video_metadata raises or returns; then the duration check and the
\* call of get_transcript.
ProcessMetadata ==
    /\ vd_pc = "metadata"
    /\ \/ /\ VideoDone(VideoFailed("DataFetchError"))
          /\ UNCHANGED <<vd_duration, vd_calls, vd_temp, vd_transcript>>
       \/ \E d \in Durations :
            /\ vd_duration' = d
            /\ IF TooLong(d, vd_config)
               THEN /\ VideoDone(VideoFailed("ValueError"))
                    /\ UNCHANGED <<vd_calls, vd_temp, vd_transcript>>
               ELSE GetTranscript(vd_calls \o <<"get_transcript">>)
    /\ UNCHANGED <<vd_config, vd_whisper_model, vd_url, vd_api, vd_whisper>>
    /\ UNCHANGED exceptVd

\* The YouTube Transcript API attempt ends: get_transcript returns its text,
\* or logs the failure and falls back.
TranscriptApi ==
    /\ vd_pc = "api"
    /\ \/ /\ vd_api' = "ok"
          /\ TranscriptReturns("youtube_api")
          /\ UNCHANGED <<vd_calls, vd_temp>>
       \/ /\ vd_api' = "failed"
          /\ WhisperFallback(vd_calls)
    /\ UNCHANGED <<vd_config, vd_whisper_model, vd_url, vd_duration, vd_whisper>>
    /\ UNCHANGED exceptVd

\* _download_audio returns a file, or None: then _transcribe_with_whisper
\* raises inside the with block.
DownloadAudio ==
    /\ vd_pc = "download"
    /\ \/ /\ vd_pc' = "transcribe"
          /\ vd_calls' = vd_calls \o <<"transcribe">>
          /\ UNCHANGED <<vd_whisper, vd_temp, vd_transcript, vd_video>>
       \/ /\ vd_whisper' = "no_audio"
          /\ vd_temp' = TempAfterWith(TRUE)
          /\ TranscriptFails("DataFetchError")
          /\ UNCHANGED vd_calls
    /\ UNCHANGED <<vd_config, vd_whisper_model, vd_url, vd_duration, vd_api>>
    /\ UNCHANGED exceptVd

\* The Whisper transcription in the executor returns or raises.
WhisperTranscribe ==
    /\ vd_pc = "transcribe"
    /\ \/ /\ vd_whisper' = "ok"
          /\ vd_temp' = TempAfterWith(FALSE)
          /\ TranscriptReturns("whisper")
       \/ /\ vd_whisper' = "failed"
          /\ vd_temp' = TempAfterWith(TRUE)
          /\ TranscriptFails("DataFetchError")
    /\ UNCHANGED <<vd_config, vd_whisper_model, vd_url, vd_duration, vd_api, vd_calls>>
    /\ UNCHANGED exceptVd

NextVideo ==
    \/ ProcessStart
    \/ ProcessMetadata
    \/ TranscriptApi
    \/ DownloadAudio
    \/ WhisperTranscribe

\* -------------------------------------------- YouTube: channel listing

\* An entry of the channel's listing: whether it has an id, and how many days
\* ago the video was uploaded.
ChannelEntries == [id : BOOLEAN, age : 0..MaxAge]

\* The listings yt-dlp can answer with under 'playlistend': max_videos * 2.
ChannelListings(max_videos) ==
    UNION {[1..n -> ChannelEntries] : n \in 0..Min(MaxEntries, max_videos * 2)}

ChannelVideosConstructed(MaxVideosArgs, DaysBack) ==
    /\ cv_max_videos \in MaxVideosArgs
    /\ cv_days_back \in DaysBack
    /\ cv_pc = "start"
    /\ cv_entries = << >>
    /\ cv_urls = << >>

\* The loop over info.get('entries', [])[:max_videos], from entry i on: one
\* URL for each entry that has an id.
RECURSIVE VideoUrls(_, _, _)
VideoUrls(entries, max_videos, i) ==
    IF i > Min(Len(entries), max_videos) THEN << >>
    ELSE IF entries[i].id THEN <<i>> \o VideoUrls(entries, max_videos, i + 1)
    ELSE VideoUrls(entries, max_videos, i + 1)

\* get_channel_videos: the listing is extracted and its URLs returned, or the
\* extraction raises and DataFetchError is raised.
GetChannelVideos ==
    /\ cv_pc = "start"
    /\ \/ \E entries \in ChannelListings(cv_max_videos) :
            /\ cv_entries' = entries
            /\ cv_urls' = VideoUrls(entries, cv_max_videos, 1)
            /\ cv_pc' = "returned"
       \/ /\ cv_pc' = "raised"
          /\ UNCHANGED <<cv_entries, cv_urls>>
    /\ UNCHANGED <<cv_max_videos, cv_days_back>>
    /\ UNCHANGED exceptCv

NextChannelVideos == GetChannelVideos

\* ------------------------------------------------- Telegram: one fetch

TelegramAuthConfigs ==
    [phone : BOOLEAN, auth_code_callback : BOOLEAN, auth_password_callback : BOOLEAN]

DefaultTelegramAuthConfig ==
    [phone |-> FALSE, auth_code_callback |-> FALSE, auth_password_callback |-> FALSE]

TelegramConstructed(Configs, Channels) ==
    /\ tg_config \in Configs
    /\ tg_channels \in Channels
    /\ tg_pc = "connect"
    /\ tg_connected = "never"
    /\ tg_session = "unknown"
    /\ tg_sign_in = "none"
    /\ tg_calls = << >>
    /\ tg_c = 1
    /\ tg_exc = "none"

\* An exception leaves __aenter__: the async with never enters its body and
\* never calls __aexit__; fetch raises it.
EnterFails(e) ==
    /\ tg_pc' = "raised"
    /\ tg_exc' = e

\* The step awaited next.
Await(step) ==
    /\ tg_pc' = step
    /\ tg_calls' = Append(tg_calls, step)
    /\ UNCHANGED tg_exc

\* __aenter__ returns self: the body of the async with begins.
Entered ==
    /\ tg_pc' = "body"
    /\ UNCHANGED <<tg_calls, tg_exc>>

\* __aenter__ after the first is_user_authorized.
AuthenticatesAlways(authorized) == TRUE
Authenticates(authorized) == ~authorized

\* __aenter__'s handler of SessionPasswordNeededError.
PasswordNeeded(sign_in) == sign_in = "SessionPasswordNeededError"

\* fetch starts: TelegramClient(config), and __aenter__ awaits connect().
TelegramStart ==
    /\ tg_pc = "connect"
    /\ tg_calls = << >>
    /\ Await("connect")
    /\ UNCHANGED <<tg_config, tg_channels, tg_connected, tg_session, tg_sign_in, tg_c>>
    /\ UNCHANGED exceptTg

\* connect() returns or raises.
TelegramConnect ==
    /\ tg_pc = "connect"
    /\ tg_calls /= << >>
    /\ \/ /\ tg_connected' = "connected"
          /\ Await("is_user_authorized")
       \/ /\ EnterFails("ConnectionError")
          /\ UNCHANGED <<tg_connected, tg_calls>>
    /\ UNCHANGED <<tg_config, tg_channels, tg_session, tg_sign_in, tg_c>>
    /\ UNCHANGED exceptTg

\* The first is_user_authorized() answers.
TelegramIsAuthorized ==
    /\ tg_pc = "is_user_authorized"
    /\ \E authorized \in BOOLEAN :
         /\ tg_session' = IF authorized THEN "authorized" ELSE "unauthorized"
         /\ IF ~Authenticates(authorized) THEN Entered
            ELSE IF ~tg_config.phone
                 THEN EnterFails("AuthenticationError") /\ UNCHANGED tg_calls
                 ELSE Await("send_code_request")
    /\ UNCHANGED <<tg_config, tg_channels, tg_connected, tg_sign_in, tg_c>>
    /\ UNCHANGED exceptTg

\* send_code_request(phone) returns or raises.
TelegramSendCode ==
    /\ tg_pc = "send_code_request"
    /\ \/ IF tg_config.auth_code_callback
          THEN Await("auth_code_callback")
          ELSE EnterFails("AuthenticationError") /\ UNCHANGED tg_calls
       \/ EnterFails("RPCError") /\ UNCHANGED tg_calls
    /\ UNCHANGED <<tg_config, tg_channels, tg_connected, tg_session, tg_sign_in, tg_c>>
    /\ UNCHANGED exceptTg

\* auth_code_callback() returns the code or raises.
TelegramCodeCallback ==
    /\ tg_pc = "auth_code_callback"
    /\ \/ Await("sign_in")
       \/ EnterFails("CallbackError") /\ UNCHANGED tg_calls
    /\ UNCHANGED <<tg_config, tg_channels, tg_connected, tg_session, tg_sign_in, tg_c>>
    /\ UNCHANGED exceptTg

\* sign_in(phone, code) returns, asks for the 2FA password, or rejects the code.
TelegramSignIn ==
    /\ tg_pc = "sign_in"
    /\ \E did \in {"ok", "SessionPasswordNeededError", "PhoneCodeInvalidError"} :
         /\ tg_sign_in' = did
         /\ IF did = "ok" THEN Await("recheck")
            ELSE IF PasswordNeeded(did)
                 THEN IF tg_config.auth_password_callback
                      THEN Await("auth_password_callback")
                      ELSE EnterFails("AuthenticationError") /\ UNCHANGED tg_calls
                 ELSE EnterFails(did) /\ UNCHANGED tg_calls
    /\ UNCHANGED <<tg_config, tg_channels, tg_connected, tg_session, tg_c>>
    /\ UNCHANGED exceptTg

\* The second is_user_authorized(), whose answer is only logged.
TelegramRecheck ==
    /\ tg_pc = "recheck"
    /\ Entered
    /\ UNCHANGED <<tg_config, tg_channels, tg_connected, tg_session, tg_sign_in, tg_c>>
    /\ UNCHANGED exceptTg

\* auth_password_callback() returns the password or raises.
TelegramPasswordCallback ==
    /\ tg_pc = "auth_password_callback"
    /\ \/ Await("sign_in_password")
       \/ EnterFails("CallbackError") /\ UNCHANGED tg_calls
    /\ UNCHANGED <<tg_config, tg_channels, tg_connected, tg_session, tg_sign_in, tg_c>>
    /\ UNCHANGED exceptTg

\* sign_in(password=password) returns or rejects the password.
TelegramPasswordSignIn ==
    /\ tg_pc = "sign_in_password"
    /\ \/ Entered
       \/ EnterFails("PasswordHashInvalidError") /\ UNCHANGED tg_calls
    /\ UNCHANGED <<tg_config, tg_channels, tg_connected, tg_session, tg_sign_in, tg_c>>
    /\ UNCHANGED exceptTg

\* One channel of the loop: fetch_messages returns or raises, and either way
\* the loop goes on.
TelegramChannel ==
    /\ tg_pc = "body"
    /\ tg_c <= tg_channels
    /\ \E fetched \in BOOLEAN :
         tg_calls' = Append(tg_calls, IF fetched THEN "fetch_messages" ELSE "fetch_messages_raised")
    /\ tg_c' = tg_c + 1
    /\ UNCHANGED <<tg_config, tg_channels, tg_pc, tg_connected, tg_session, tg_sign_in, tg_exc>>
    /\ UNCHANGED exceptTg

\* The loop is over: __aexit__ disconnects and fetch returns.
TelegramExit ==
    /\ tg_pc = "body"
    /\ tg_c > tg_channels
    /\ tg_calls' = Append(tg_calls, "disconnect")
    /\ tg_connected' = "disconnected"
    /\ tg_pc' = "returned"
    /\ UNCHANGED <<tg_config, tg_channels, tg_session, tg_sign_in, tg_c, tg_exc>>
    /\ UNCHANGED exceptTg

NextTelegram ==
    \/ TelegramStart
    \/ TelegramConnect
    \/ TelegramIsAuthorized
    \/ TelegramSendCode
    \/ TelegramCodeCallback
    \/ TelegramSignIn
    \/ TelegramRecheck
    \/ TelegramPasswordCallback
    \/ TelegramPasswordSignIn
    \/ TelegramChannel
    \/ TelegramExit

\* --------------------------------------------- Reddit: RedditCollectSpec

\* Subreddit names, as sequences of the characters that matter to the
\* validator: "r", "/", and "p" for any other character.
NameChars == {"r", "/", "p"}
Names == UNION {[1..n -> NameChars] : n \in 0..MaxNameLen}
SubredditLists == UNION {[1..n -> Names] : n \in 1..MaxSubreddits}

StartsWith(s, prefix) ==
    /\ Len(s) >= Len(prefix)
    /\ SubSeq(s, 1, Len(prefix)) = prefix

\* str.removeprefix
RemovePrefix(s, prefix) ==
    IF StartsWith(s, prefix) THEN SubSeq(s, Len(prefix) + 1, Len(s)) ELSE s

\* The field validator strip_r_prefix, on one name.
StripRPrefix(sub) == RemovePrefix(RemovePrefix(sub, <<"r", "/">>), <<"/">>)

RedditSpecConstructed(Pcs, Given) ==
    /\ rs_pc \in Pcs
    /\ rs_given \in Given
    /\ rs_subreddits = << >>

\* RedditCollectSpec(subreddits=rs_given): the validator runs on the list.
ConstructRedditSpec ==
    /\ rs_pc = "new"
    /\ rs_pc' = "constructed"
    /\ rs_subreddits' = [i \in 1..Len(rs_given) |-> StripRPrefix(rs_given[i])]
    /\ UNCHANGED rs_given
    /\ UNCHANGED exceptRs

NextRedditSpec == ConstructRedditSpec

\* --------------------------------------------------- Reddit: one fetch

\* config.rate_limit: None, or an integer.
RateLimits ==
    {[is_none |-> TRUE, value |-> 0]} \cup {[is_none |-> FALSE, value |-> v] : v \in 0..MaxRate}

\* RedditClient.__init__: `RateLimiter(config.rate_limit) if config.rate_limit else None`
HasLimiterUnlessNone(rate_limit) == ~rate_limit.is_none
HasLimiter(rate_limit) == ~rate_limit.is_none /\ rate_limit.value /= 0

RedditFetchConstructed(Limits, Subreddits, Comments) ==
    /\ rd_rate_limit \in Limits
    /\ rd_rate_limiter = HasLimiter(rd_rate_limit)
    /\ rd_subreddits \in Subreddits
    /\ rd_include_comments \in Comments
    /\ rd_pc = "enter"
    /\ rd_s = 1
    /\ rd_left = 0
    /\ rd_events = << >>

Event(what, s) == [what |-> what, s |-> s]

\* client.fetch_submissions for subreddit s, up to its first await: the
\* limiter's acquire() if there is a limiter, the listing request otherwise.
FetchSubmissions(events, s) ==
    /\ rd_s' = s
    /\ IF rd_rate_limiter
       THEN /\ rd_events' = Append(events, Event("acquire", s))
            /\ rd_pc' = "acquire"
       ELSE /\ rd_events' = Append(events, Event("listing", s))
            /\ rd_pc' = "listing"

\* Subreddit s is done: the next one, or the end of the async with and of fetch.
AfterSubreddit(events, s) ==
    IF s < rd_subreddits
    THEN FetchSubmissions(events, s + 1)
    ELSE /\ rd_pc' = "returned"
         /\ rd_events' = events
         /\ UNCHANGED rd_s

\* One submission of subreddit s, up to its await: the comment request when
\* comments are wanted, else the post is built and the next one is taken.
RECURSIVE Submissions(_, _, _)
Submissions(events, s, left) ==
    IF left = 0
    THEN /\ AfterSubreddit(events, s)
         /\ rd_left' = 0
    ELSE IF rd_include_comments
         THEN /\ rd_events' = Append(events, Event("comments", s))
              /\ rd_pc' = "comments"
              /\ rd_left' = left
              /\ UNCHANGED rd_s
         ELSE Submissions(events, s, left - 1)

\* RedditClient.__aenter__ builds the asyncpraw client, or raises.
RedditEnter ==
    /\ rd_pc = "enter"
    /\ \/ /\ FetchSubmissions(rd_events, 1)
       \/ /\ rd_pc' = "raised"
          /\ UNCHANGED <<rd_s, rd_events>>
    /\ UNCHANGED <<rd_rate_limit, rd_rate_limiter, rd_subreddits, rd_include_comments, rd_left>>
    /\ UNCHANGED exceptRd

\* acquire() returns: fetch_submissions issues the listing request.
RedditAcquired ==
    /\ rd_pc = "acquire"
    /\ rd_events' = rd_events \o <<Event("acquired", rd_s), Event("listing", rd_s)>>
    /\ rd_pc' = "listing"
    /\ UNCHANGED <<rd_rate_limit, rd_rate_limiter, rd_subreddits, rd_include_comments,
                   rd_s, rd_left>>
    /\ UNCHANGED exceptRd

\* The listing ends: with n submissions, or with an exception that the loop
\* logs before it goes on.
RedditListing ==
    /\ rd_pc = "listing"
    /\ \/ \E n \in 0..MaxItems : Submissions(rd_events, rd_s, n)
       \/ /\ AfterSubreddit(rd_events, rd_s)
          /\ UNCHANGED rd_left
    /\ UNCHANGED <<rd_rate_limit, rd_rate_limiter, rd_subreddits, rd_include_comments>>
    /\ UNCHANGED exceptRd

\* fetch_comments returns (its errors are swallowed); the post is built.
RedditComments ==
    /\ rd_pc = "comments"
    /\ Submissions(rd_events, rd_s, rd_left - 1)
    /\ UNCHANGED <<rd_rate_limit, rd_rate_limiter, rd_subreddits, rd_include_comments>>
    /\ UNCHANGED exceptRd

NextRedditFetch ==
    \/ RedditEnter
    \/ RedditAcquired
    \/ RedditListing
    \/ RedditComments

\* ------------------------------------------ RateLimiter: fair scheduling

\* The clock goes on while a caller sleeps in acquire(), also past the time
\* up to which the model lets it run idle.
SleepTick ==
    /\ now >= MaxTime
    /\ \E p \in Callers : pc[p] = "sleeping" /\ now < wakeAt
    /\ now' = now + 1
    /\ UNCHANGED <<rate, tokens, last_update, locked, waiters, pc, wakeAt,
                   ncalls, ndone, nosleep, tC, tC1, idled, lateCall>>
    /\ UNCHANGED exceptLim

NextFairLimiter ==
    \/ \E p \in Callers : Call(p)
    \/ \E p \in Callers : Enter(p)
    \/ \E p \in Callers : Wake(p)
    \/ Tick
    \/ SleepTick

\* ------------------------------------------------------ specifications

vars == <<limVars, retryVars, ptVars, gnVars, coVars, ytVars, cfgVars, vdVars, cvVars, tgVars, rsVars, rdVars>>

\* The subsystems named in G, each as constructed and left alone.
Standby(G) ==
    /\ IF "limiter" \in G THEN LimiterConstructed({1}) ELSE TRUE
    /\ IF "retry" \in G
       THEN /\ RetryConstructed({"generic"})
            /\ max_attempts = SearchMaxAttempts
            /\ min_wait = DefaultMinWait
            /\ max_wait = DefaultMaxWait
       ELSE TRUE
    /\ IF "pytrends" \in G THEN PyTrendsConstructed({DefaultPyTrendsSpec}) ELSE TRUE
    /\ IF "gnews" \in G THEN GNewsConstructed({"search"}) ELSE TRUE
    /\ IF "collectors" \in G THEN CollectorConstructed({"none"}) ELSE TRUE
    /\ IF "youtube" \in G THEN YouTubeConstructed({DefaultYouTubeSpec}) ELSE TRUE
    /\ IF "config" \in G THEN ConfigConstructed({"BaseClientConfig"}) ELSE TRUE
    /\ IF "video" \in G THEN VideoConstructed({DefaultVideoConfig}, {"valid"}, {FALSE}) ELSE TRUE
    /\ IF "channel" \in G THEN ChannelVideosConstructed({1}, {1}) ELSE TRUE
    /\ IF "telegram" \in G THEN TelegramConstructed({DefaultTelegramAuthConfig}, {1}) ELSE TRUE
    /\ IF "redditspec" \in G THEN RedditSpecConstructed({"constructed"}, {<<<<"p">>>>}) ELSE TRUE
    /\ IF "redditfetch" \in G THEN RedditFetchConstructed({[is_none |-> TRUE, value |-> 0]}, {1}, {TRUE}) ELSE TRUE

\* The RateLimiter and its callers; the retry wrapper stays as built.
InitLimiter ==
    /\ LimiterConstructed(1..MaxRate)
    /\ Standby({"retry", "pytrends", "gnews", "collectors", "youtube", "config", "video", "channel", "telegram", "redditspec", "redditfetch"})

LimiterSpec == InitLimiter /\ [][NextLimiter]_vars

\* The retry wrapper, around the abstract operation and around
\* search_recent; the limiter stays as built.
InitRetry ==
    /\ RetryConstructed({"generic", "search_recent"})
    /\ Standby({"limiter", "pytrends", "gnews", "collectors", "youtube", "config", "video", "channel", "telegram", "redditspec", "redditfetch"})

RetrySpec == InitRetry /\ [][NextRetry]_vars

\* PyTrendsCollector.fetch on every request of the model.
InitPyTrends ==
    /\ PyTrendsConstructed(PyTrendsCollectSpecs)
    /\ Standby({"limiter", "retry", "gnews", "collectors", "youtube", "config", "video", "channel", "telegram", "redditspec", "redditfetch"})

PyTrendsSpec == InitPyTrends /\ [][NextPyTrends]_vars

\* GNewsCollector.fetch on every answer of the API.
InitGNews ==
    /\ GNewsConstructed({"search"})
    /\ Standby({"limiter", "retry", "pytrends", "collectors", "youtube", "config", "video", "channel", "telegram", "redditspec", "redditfetch"})

GNewsSpec == InitGNews /\ [][NextGNews]_vars

\* One fetch of RedditCollector or TelegramCollector (the retry wrapper left
\* alone), or one of TwitterCollector (no target loop).
InitCollectors ==
    /\ \/ /\ CollectorConstructed({"reddit", "telegram"})
          /\ Standby({"retry"})
       \/ /\ CollectorConstructed({"none"})
          /\ RetryConstructed({"search_recent"})
    /\ Standby({"limiter", "pytrends", "gnews", "youtube", "config", "video", "channel", "telegram", "redditspec", "redditfetch"})

CollectorsSpec == InitCollectors /\ [][NextCollectors]_vars

\* YouTubeCollector.fetch on every specification of the model.
InitYouTube ==
    /\ YouTubeConstructed(YouTubeCollectSpecs)
    /\ Standby({"limiter", "retry", "pytrends", "gnews", "collectors", "config", "video", "channel", "telegram", "redditspec", "redditfetch"})

YouTubeSpec == InitYouTube /\ [][NextYouTube]_vars

\* One object of each client-config and collect-spec class, and the
\* assignments to its fields.
InitConfig ==
    /\ ConfigConstructed(ClientConfigs \cup CollectSpecs \cup {"BaseClientConfig", "BaseCollectSpec"})
    /\ Standby({"limiter", "retry", "pytrends", "gnews", "collectors", "youtube", "video", "channel", "telegram", "redditspec", "redditfetch"})

ConfigSpec == InitConfig /\ [][NextConfig]_vars

\* _process_video on one URL, under every configuration of the model.
InitVideo ==
    /\ VideoConstructed(VideoConfigs, {"valid", "invalid"}, BOOLEAN)
    /\ Standby({"limiter", "retry", "pytrends", "gnews", "collectors", "youtube", "config", "channel", "telegram", "redditspec", "redditfetch"})

VideoSpec == InitVideo /\ [][NextVideo]_vars

\* get_channel_videos on every listing of the model.
InitChannelVideos ==
    /\ ChannelVideosConstructed(1..MaxVideosArg, 1..MaxDaysBack)
    /\ Standby({"limiter", "retry", "pytrends", "gnews", "collectors", "youtube", "config", "video", "telegram", "redditspec", "redditfetch"})

ChannelVideosSpec == InitChannelVideos /\ [][NextChannelVideos]_vars

\* One TelegramCollector.fetch under every authentication configuration.
InitTelegram ==
    /\ TelegramConstructed(TelegramAuthConfigs, 1..MaxChannels)
    /\ Standby({"limiter", "retry", "pytrends", "gnews", "collectors", "youtube", "config", "video", "channel", "redditspec", "redditfetch"})

TelegramSpec == InitTelegram /\ [][NextTelegram]_vars

\* RedditCollectSpec built from every list of names of the model.
InitRedditSpec ==
    /\ RedditSpecConstructed({"new"}, SubredditLists)
    /\ Standby({"limiter", "retry", "pytrends", "gnews", "collectors", "youtube", "config", "video", "channel", "telegram", "redditfetch"})

RedditSpecSpec == InitRedditSpec /\ [][NextRedditSpec]_vars

\* One RedditCollector.fetch under every rate_limit of the model.
InitRedditFetch ==
    /\ RedditFetchConstructed(RateLimits, 1..MaxTargets, BOOLEAN)
    /\ Standby({"limiter", "retry", "pytrends", "gnews", "collectors", "youtube", "config", "video", "channel", "telegram", "redditspec"})

RedditFetchSpec == InitRedditFetch /\ [][NextRedditFetch]_vars

\* The event loop resumes every task that is ready (the first waiter of a
\* released lock, a sleeper whose delay is over), and time passes.
FairScheduling ==
    /\ \A p \in Callers : WF_vars(Enter(p))
    /\ \A p \in Callers : WF_vars(Wake(p))
    /\ WF_vars(Tick)
    /\ WF_vars(SleepTick)

\* The RateLimiter and its callers under a fair event loop.
FairLimiterSpec == InitLimiter /\ [][NextFairLimiter]_vars /\ FairScheduling

\* The collectors named in G with no fetch of theirs called.
NotCalled(G) ==
    /\ IF "pytrends" \in G
       THEN /\ pt_spec = DefaultPyTrendsSpec
            /\ pt_pc = "idle"
            /\ pt_result = NewPyTrendsResult(pt_spec)
            /\ pt_calls = << >>
            /\ pt_how = [critical |-> "none", related |-> "none", region |-> "none"]
       ELSE TRUE
    /\ IF "gnews" \in G THEN GNewsConstructed({"idle"}) ELSE TRUE
    /\ IF "youtube" \in G
       THEN /\ yt_spec = DefaultYouTubeSpec
            /\ yt_pc = "idle"
            /\ yt_chan = << >>
            /\ yt_all_urls = << >>
            /\ yt_task = << >>
            /\ yt_videos = << >>
       ELSE TRUE

\* One fetch of one of the collectors whose results carry a status:
\* PyTrendsCollector, GNewsCollector, or YouTubeCollector.
InitResults ==
    /\ \/ PyTrendsConstructed(PyTrendsCollectSpecs) /\ NotCalled({"gnews", "youtube"})
       \/ GNewsConstructed({"search"}) /\ NotCalled({"pytrends", "youtube"})
       \/ YouTubeConstructed(YouTubeCollectSpecs) /\ NotCalled({"pytrends", "gnews"})
    /\ Standby({"limiter", "retry", "collectors", "config", "video", "channel", "telegram", "redditspec", "redditfetch"})

NextResults ==
    \/ PyTrendsCritical
    \/ PyTrendsRelated
    \/ PyTrendsRegion
    \/ GNewsSearch
    \/ GNewsArticle
    \/ GNewsFinish
    \/ YouTubeStart
    \/ \E c \in 1..MaxChannels : ChannelTask(c)
    \/ ChannelsJoined
    \/ \E i \in 1..MaxVideos : VideoMetadata(i)
    \/ \E i \in 1..MaxVideos : VideoTranscript(i)
    \/ VideosJoined

ResultsSpec == InitResults /\ [][NextResults]_vars

\* ------------------------------------------------ RateLimiter: claims

\* C1: for a RateLimiter of capacity C >= 1, 0 <= tokens <= C in every
\* reachable state, whatever the interleaving of acquire() calls and whatever
\* idle time passes between them.
C1_TokensInRange == 0 <= tokens /\ tokens <= Capacity

\* The first acquire() comes after the full bucket idled for at least one
\* token's refill time: the refill is cut at the capacity, then debited.
C1_Witness ==
    /\ ndone = 1
    /\ last_update >= OneToken
    /\ tokens = Capacity - OneToken

\* C2: the limiter never over-issues: the acquire() calls completed within
\* T seconds of construction are at most C + T * C / 60 (in ticks:
\* C + now / Resolution), for sequential and concurrent callers alike.
C2_NoOverIssue == ndone * Resolution <= Capacity + now

\* C3: from a full bucket, with C + 1 acquire() calls issued back-to-back (no
\* time passes but in the limiter's own sleep), call C + 1 completes at least
\* 60 / C seconds (Resolution ticks) after call C; and however the calls are
\* spaced, call C + 1 completes no earlier than 60 / C seconds after
\* construction (for C = 60: call 61 no earlier than t = 1 s).
C3_BackToBackGap ==
    /\ (~idled /\ ndone >= rate + 1) => tC1 - tC >= Resolution
    /\ ndone >= rate + 1 => tC1 >= Resolution

\* Call C + 1 has completed back-to-back, exactly one token's time after call C.
C3_Witness ==
    /\ ~idled
    /\ ndone >= rate + 1
    /\ tC1 - tC = Resolution

\* C4: at most one caller at a time is inside the refill+debit step, its
\* sleep included; and so, from a full bucket with more than C callers all
\* calling at time 0, at most C return without sleeping.
C4_SerializedNoFreePass ==
    /\ Cardinality({p \in Callers : pc[p] = "sleeping"}) <= 1
    /\ (\E p \in Callers : pc[p] = "sleeping") <=> locked
    /\ (~lateCall /\ ~idled) => nosleep <= rate

\* ------------------------------------------------- with_retry: claims

Last(s) == s[Len(s)]

\* Every invocation so far raised an error of the transient set.
AllTransient ==
    \A i \in 1..Len(outcomes) :
        outcomes[i] \in HttpxErrors \cup {"asyncio.TimeoutError"}

\* The invocations before the last one all raised a transient error.
TransientBeforeLast ==
    \A i \in 1..(Len(outcomes) - 1) :
        outcomes[i] \in HttpxErrors \cup {"asyncio.TimeoutError"}

\* C5: an operation under with_retry(max_attempts=M) that fails with a
\* transient error k <= M - 1 times and then succeeds is invoked k + 1 times
\* and its value is returned: the wrapper goes on after each of the k
\* failures and returns the value of invocation k + 1; the operation is never
\* invoked more than M times.
C5_RetryThenSuccess ==
    /\ Len(outcomes) <= max_attempts
    /\ (AllTransient /\ Len(outcomes) < max_attempts) => rpc \in {"ready", "sleeping"}
    /\ (outcomes /= << >> /\ TransientBeforeLast /\ IsValue(Last(outcomes)))
          => (rpc = "returned" /\ result = Last(outcomes) /\ raised = "none")

\* The operation failed max_attempts - 1 >= 2 times and then returned a value.
C5_Witness ==
    /\ max_attempts >= 3
    /\ Len(outcomes) = max_attempts
    /\ TransientBeforeLast
    /\ Last(outcomes) = "v2"
    /\ result = "v2"

\* C6: when all M attempts fail with a transient error, the caller receives
\* the operation's own last exception, unchanged and unwrapped.
C6_ReraisesLastError ==
    (outcomes /= << >> /\ AllTransient /\ Len(outcomes) = max_attempts)
        => (rpc = "raised" /\ raised = Last(outcomes))

\* C7: an error outside the transient set is never retried: the invocation
\* that raised it is the last one, no backoff sleep follows it, and the caller
\* receives that very error; so a search_recent answered 401 or 429 raises
\* AuthenticationError or RateLimitError, and one raised by the first
\* invocation leaves exactly one invocation and no sleep.
C7_NonTransientNotRetried ==
    /\ \A i \in 1..Len(outcomes) :
          (~IsValue(outcomes[i])
             /\ outcomes[i] \notin HttpxErrors \cup {"asyncio.TimeoutError"})
          => /\ i = Len(outcomes)
             /\ Len(sleeps) = i - 1
             /\ rpc = "raised"
             /\ raised = outcomes[i]
    /\ \A i \in 1..Len(transport) :
          /\ transport[i] = "401" => (raised = "AuthenticationError" /\ i = Len(outcomes))
          /\ transport[i] = "429" => (raised = "RateLimitError" /\ i = Len(outcomes))

\* search_recent was answered 401 on its first request, and fetch is over.
C7_Witness ==
    /\ transport = <<"401">>
    /\ sleeps = << >>
    /\ raised = "AuthenticationError"
    /\ fetchState = "raised"

\* C8 as stated: the backoff after failed attempt a (from 0) is
\* min(max_wait, min_wait * 2^a).
C8_BackoffAsStated ==
    \A i \in 1..Len(sleeps) :
        sleeps[i] = Min(max_wait, min_wait * Pow2(i - 1))

\* C8, amended: for 0 <= min_wait <= max_wait the backoff after failed attempt
\* a (from 0) is max(min_wait, min(max_wait, 2^a)): min_wait is a lower clamp
\* of the doubling wait, not its multiplier.
C8_BackoffClamped ==
    \A i \in 1..Len(sleeps) :
        sleeps[i] = Max(min_wait, Min(max_wait, Pow2(i - 1)))

\* Three backoffs under min_wait = 2, max_wait = 4.
C8_Witness ==
    /\ min_wait = 2
    /\ max_wait = 4
    /\ sleeps = <<2, 2, 4>>

\* The policy of the example: 3 attempts, waits from 1 s up to 10 s, and
\* TimeoutError from each of 3 invocations.
TimedOutThrice ==
    /\ max_attempts = 3
    /\ min_wait = DefaultMinWait
    /\ max_wait = DefaultMaxWait
    /\ outcomes = <<"asyncio.TimeoutError", "asyncio.TimeoutError", "asyncio.TimeoutError">>

C10_TransportFailureRetried ==
    (/\ op = "search_recent"
     /\ rpc = "raised"
     /\ \A i \in 1..Len(transport) :
           transport[i] \in {"500", "httpx.TimeoutException", "httpx.ConnectError"})
    => Len(transport) = SearchMaxAttempts

\* ------------------------------------------ PyTrendsCollector: claims

\* C11: when the critical interest-over-time fetch or its conversion fails,
\* fetch has returned at once with status "failed" and a non-empty error, the
\* critical fetch is the only client call made (no optional fetch follows),
\* and the result's keywords, timeframe and geo are the spec's.
C11_CriticalFailureAborts ==
    pt_how.critical \in {"fetch", "convert"} =>
        /\ pt_pc = "returned"
        /\ pt_result.status = "failed"
        /\ pt_result.error \notin {"None", ""}
        /\ pt_calls = <<"get_interest_over_time">>
        /\ pt_how.related = "none" /\ pt_how.region = "none"
        /\ pt_result.keywords = pt_spec.keywords
        /\ pt_result.timeframe = pt_spec.timeframe
        /\ pt_result.geo = pt_spec.geo

\* The conversion failed for a request of two keywords that asked for both
\* optional fetches.
C11_Witness ==
    /\ pt_how.critical = "convert"
    /\ pt_pc = "returned"
    /\ Len(pt_spec.keywords) = 2
    /\ pt_spec.geo = "US"
    /\ pt_spec.include_related_queries
    /\ pt_spec.include_interest_by_region

\* C12: when the critical fetch succeeds and an optional sub-fetch fails at
\* any point of its fetching or processing, the corresponding optional field
\* (related_queries_top and related_queries_rising, or interest_by_region) is
\* left empty, the result has status "success", and the remaining optional
\* fetch is still attempted.
C12_OptionalFailureLeavesEmpty ==
    /\ pt_how.related \in {"fetch", "process"} =>
          /\ pt_result.related_queries_top = {}
          /\ pt_result.related_queries_rising = {}
          /\ (pt_pc = "returned" /\ pt_spec.include_interest_by_region)
                => pt_how.region /= "none"
    /\ pt_how.region \in {"fetch", "process"} =>
          pt_result.interest_by_region = {}
    /\ (pt_pc = "returned" /\ pt_how.critical \in {"ok", "empty"}) =>
          pt_result.status = "success"

\* --------------------------------------------- GNewsCollector: claims

\* The positions of the well-formed articles of a response, in order.
RECURSIVE WellFormed(_, _)
WellFormed(d, i) ==
    IF i > Len(d) THEN << >>
    ELSE IF d[i] = "good" THEN <<i>> \o WellFormed(d, i + 1)
    ELSE WellFormed(d, i + 1)

\* C13: when the search succeeds and some returned articles are malformed,
\* fetch never aborts the batch: it ends with status "success", and its
\* articles are exactly the well-formed ones, in response order, each
\* malformed one skipped.
C13_MalformedSkipped ==
    (gn_transport = "200" /\ gn_pc \notin {"search", "articles"}) =>
        /\ gn_pc = "returned"
        /\ gn_result.status = "success"
        /\ gn_result.articles = WellFormed(gn_articles_data, 1)

\* C16: fetch never raises for a failure of the search call (authentication
\* error, HTTP 429, transport error, API-level error): it returns a result
\* with status "failed", error set to the message of the failure, and no
\* articles.
C16_SearchFailureReturned ==
    gn_transport \notin {"none", "200"} =>
        /\ gn_pc = "returned"
        /\ gn_exc /= NoException
        /\ gn_result.status = "failed"
        /\ gn_result.error = gn_exc.message
        /\ gn_result.error \notin {"None", ""}
        /\ gn_result.articles = << >>

\* The API answered 401 and fetch has returned.
C16_Witness ==
    /\ gn_transport = "401"
    /\ gn_pc = "returned"
    /\ gn_result.error = "Invalid GNews API key"

\* ------------------------- Reddit, Telegram, Twitter collectors: claims

\* What the targets handled so far have added, in spec order.
RECURSIVE Collected(_, _)
Collected(listings, t) ==
    IF t > Len(listings) THEN << >>
    ELSE Processed(t, listings[t], 1) \o Collected(listings, t + 1)

\* C14: in RedditCollector.fetch and TelegramCollector.fetch, a target whose
\* listing raises contributes no items, the loop goes on with every remaining
\* target, and fetch returns normally with the items of the other targets in
\* spec order.
C14_FailedTargetSkipped ==
    /\ \A t \in 1..Len(co_listing) :
          co_listing[t].raised =>
              /\ co_pc /= "raised"
              /\ \A k \in 1..Len(co_items) : co_items[k][1] /= t
    /\ co_items = Collected(co_listing, 1)
    /\ co_pc = "returned" => Len(co_listing) = co_targets

\* Three targets, the listing of the second raised, the first and the third
\* gave an item each, and fetch has returned.
C14_Witness ==
    /\ co_pc = "returned"
    /\ co_targets = 3
    /\ co_listing[2].raised
    /\ co_items = <<(<<1, 1>>), (<<3, 1>>)>>

\* The well-formed records of a response of the Twitter API, in order.
RECURSIVE GoodTweets(_, _)
GoodTweets(d, i) ==
    IF i > Len(d) THEN << >>
    ELSE IF d[i] = "good" THEN <<d[i]>> \o GoodTweets(d, i + 1)
    ELSE GoodTweets(d, i + 1)

\* C15: in TwitterCollector.fetch a tweet record that fails to parse is
\* skipped and all remaining tweets are still returned: once search_recent
\* has returned its response, fetch returns the well-formed tweets of it.
C15_BadTweetSkipped ==
    (op = "search_recent" /\ rpc = "returned" /\ fetchState /= "running") =>
        /\ fetchState = "returned"
        /\ tweets = GoodTweets(response, 1)

C18_OneFailureIsolated ==
    /\ (yt_pc = "returned" /\ yt_all_urls /= << >>) =>
          /\ Len(yt_videos) = Len(yt_all_urls)
          /\ \A i \in 1..Len(yt_all_urls) :
                /\ yt_videos[i].url = yt_all_urls[i]
                /\ yt_task[i].exc /= "none" =>
                      /\ yt_videos[i].status = "failed"
                      /\ yt_videos[i].error = yt_task[i].exc
                /\ yt_task[i].exc = "none" => yt_videos[i].status = "success"
    /\ \A i \in 1..Len(yt_task) :
          (yt_task[i].at = "done" /\ yt_task[i].exc = "none")
              => yt_task[i].ret = SuccessVideo(yt_all_urls[i])

\* Three valid URLs, no channel; processing of the second one alone raised.
C18_Witness ==
    /\ yt_pc = "returned"
    /\ yt_spec.urls = <<"valid", "valid", "valid">>
    /\ Len(yt_videos) = 3
    /\ yt_task[1].exc = "none"
    /\ yt_task[2].exc = "DataFetchError"
    /\ yt_task[3].exc = "none"
    /\ yt_videos[2].status = "failed"

\* C19 as stated: a channel whose listing task raised is represented in the
\* returned collection by a failed-status record for that channel.
C19_FailedChannelRecorded ==
    yt_pc = "returned" =>
        \A c \in 1..Len(yt_chan) :
            yt_chan[c].raised =>
                \E k \in 1..Len(yt_videos) :
                    /\ yt_videos[k].status = "failed"
                    /\ yt_videos[k].url.src = "channel"
                    /\ yt_videos[k].url.of = c

\* C19, amended: a channel whose listing task raised is logged and skipped:
\* no entry of the returned list is for that channel, and the list has one
\* entry for each valid URL of the spec and for each video the other
\* channels listed (the empty list when nothing else is left); fetch returns
\* normally, the batch is not failed.
C19_FailedChannelSkipped ==
    yt_pc = "returned" =>
        /\ \A c \in 1..Len(yt_chan) :
              yt_chan[c].raised =>
                  \A k \in 1..Len(yt_videos) :
                      ~(yt_videos[k].url.src = "channel" /\ yt_videos[k].url.of = c)
        /\ \A c \in 1..Len(yt_chan) :
              ~yt_chan[c].raised =>
                  Cardinality({k \in 1..Len(yt_videos) :
                                  yt_videos[k].url.src = "channel" /\ yt_videos[k].url.of = c})
                      = yt_chan[c].count
        /\ Cardinality({k \in 1..Len(yt_videos) : yt_videos[k].url.src = "urls"})
              = Len(ValidUrls(yt_spec.urls, 1))

\* Two channels: the listing of the first raised, the second listed one
\* video, which is the only entry of the returned list.
C19_Witness ==
    /\ yt_pc = "returned"
    /\ Len(yt_chan) = 2
    /\ yt_chan[1].raised
    /\ yt_chan[2].count = 1
    /\ Len(yt_videos) = 1
    /\ yt_videos[1].url = Url("channel", 2, 1)

\* --------------------------------------- configs and specs: claims

\* C20: every client configuration object (Reddit, Twitter, YouTube,
\* Telegram, GNews, PyTrends) is frozen: an assignment to any of its fields
\* raises and leaves the object as constructed; an assignment to a field of a
\* collection-specification object does not raise and the field holds the
\* assigned value.
C20_ConfigFrozenSpecMutable ==
    /\ cfg_class \in ClientConfigs =>
          /\ cfg_obj = [f \in Fields(cfg_class) |-> "v0"]
          /\ cfg_last /= NoAssignment => cfg_last.raised
    /\ (cfg_class \in CollectSpecs /\ cfg_last /= NoAssignment) =>
          /\ ~cfg_last.raised
          /\ cfg_obj[cfg_last.field] = cfg_last.value

\* A TelegramClientConfig, whose class has a `class Config` of its own, after
\* an assignment of another value to its phone field.
C20_Witness ==
    /\ cfg_class = "TelegramClientConfig"
    /\ cfg_last = [field |-> "phone", value |-> "v1", raised |-> TRUE]

\* ------------------------------------------- YouTube: one video: claims

\* C21: the temporary directory that _transcribe_with_whisper creates exists
\* only while that call is running: once it has returned or raised
\* (transcribed, no audio downloaded, or transcription failed) the directory
\* is gone.
C21_TempDirRemoved ==
    /\ vd_temp = "exists" => vd_pc \in {"download", "transcribe"}
    /\ vd_whisper /= "none" => vd_temp = "removed"

C21_Witness ==
    /\ vd_pc = "done"
    /\ vd_whisper = "failed"
    /\ vd_temp = "removed"

Called(step) == \E i \in 1..Len(vd_calls) : vd_calls[i] = step
Position(step) == CHOOSE i \in 1..Len(vd_calls) : vd_calls[i] = step

\* C25: get_transcript tries the YouTube Transcript API first whenever
\* use_transcript_api is set, and Whisper only after that attempt failed or
\* with the API disabled; the source returned is 'youtube_api' exactly when
\* the API attempt succeeded and 'whisper' otherwise; DataFetchError is
\* raised exactly when the API did not succeed and no Whisper model is loaded
\* or the Whisper transcription failed.
C25_FallbackOrder ==
    /\ Called("get_transcript") =>
          /\ Called("transcript_api") <=> vd_config.use_transcript_api
          /\ vd_config.use_transcript_api =>
                Position("transcript_api") = Position("get_transcript") + 1
    /\ ~Called("get_transcript") => ~Called("transcript_api")
    /\ Called("_transcribe_with_whisper") =>
          /\ Called("get_transcript")
          /\ ~vd_config.use_transcript_api \/ vd_api = "failed"
          /\ vd_config.use_transcript_api =>
                Position("transcript_api") < Position("_transcribe_with_whisper")
    /\ vd_transcript.state = "returned" =>
          /\ vd_transcript.source = "youtube_api" <=> vd_api = "ok"
          /\ vd_transcript.source = "whisper" <=> vd_api /= "ok"
    /\ vd_transcript.state /= "none" =>
          (vd_transcript = TranscriptRaised("DataFetchError")
             <=> /\ vd_api /= "ok"
                 /\ ~vd_whisper_model \/ vd_whisper \in {"no_audio", "failed"})
    /\ vd_pc = "done" /\ Called("get_transcript") => vd_transcript.state /= "none"

C25_Witness ==
    /\ vd_config.use_transcript_api
    /\ vd_api = "failed"
    /\ vd_transcript = TranscriptReturned("whisper")

\* C26: a video whose metadata duration exceeds config.max_video_length
\* yields a 'failed' record with an empty transcript, and get_transcript is
\* never called for it; a duration up to the limit, the limit included,
\* passes the check and the transcript is fetched.
C26_TooLongRejected ==
    /\ vd_duration > vd_config.max_video_length =>
          /\ ~Called("get_transcript")
          /\ vd_transcript = NoTranscript
          /\ vd_pc = "done"
          /\ vd_video.status = "failed"
          /\ vd_video.transcript = ""
    /\ vd_duration >= 0 /\ vd_duration <= vd_config.max_video_length =>
          Called("get_transcript")

C26_Witness ==
    /\ vd_duration = vd_config.max_video_length + 1
    /\ vd_video = VideoFailed("ValueError")

\* ------------------------------------- YouTube: channel listing: claims

\* C24: get_channel_videos returns at most max_videos URLs, and only URLs of
\* videos uploaded within the last days_back days.
C24_AtMostMaxAndRecent ==
    cv_pc = "returned" =>
        /\ Len(cv_urls) <= cv_max_videos
        /\ \A i \in 1..Len(cv_urls) : cv_entries[cv_urls[i]].age <= cv_days_back

\* ------------------------------------------- Telegram: one fetch: claims

Times(step) == Cardinality({i \in 1..Len(tg_calls) : tg_calls[i] = step})
First(step) == CHOOSE i \in 1..Len(tg_calls) : tg_calls[i] = step

\* C22: during __aenter__ auth_code_callback is called at most once, and only
\* when the session was not authorized and after the code request was sent;
\* auth_password_callback is called at most once, and only after
\* sign_in(phone, code) raised SessionPasswordNeededError; with an authorized
\* session neither is called.
C22_CallbacksOnDemand ==
    /\ Times("auth_code_callback") <= 1
    /\ Times("auth_code_callback") = 1 =>
          /\ tg_session = "unauthorized"
          /\ Times("send_code_request") = 1
          /\ First("send_code_request") < First("auth_code_callback")
    /\ Times("auth_password_callback") <= 1
    /\ Times("auth_password_callback") = 1 =>
          /\ tg_sign_in = "SessionPasswordNeededError"
          /\ First("sign_in") < First("auth_password_callback")
    /\ tg_session = "authorized" =>
          Times("auth_code_callback") = 0 /\ Times("auth_password_callback") = 0

C22_Witness ==
    /\ tg_pc = "returned"
    /\ Times("auth_code_callback") = 1
    /\ Times("auth_password_callback") = 1

\* C28: every fetch that connected the Telethon client has disconnected it
\* when fetch returns or raises, also when authentication fails inside
\* __aenter__.
C28_AlwaysDisconnected ==
    (tg_pc \in {"returned", "raised"} /\ Times("connect") = 1 /\ tg_exc /= "ConnectionError")
        => tg_connected = "disconnected"

\* ------------------------------------------------------- Reddit: claims

\* C23: after RedditCollectSpec is constructed no stored subreddit name
\* begins with 'r/' or '/', and a name given without such a prefix is stored
\* unchanged.
C23_PrefixStripped ==
    rs_pc = "constructed" =>
        \A i \in 1..Len(rs_given) :
            /\ ~StartsWith(rs_subreddits[i], <<"r", "/">>)
            /\ ~StartsWith(rs_subreddits[i], <<"/">>)
            /\ (~StartsWith(rs_given[i], <<"r", "/">>) /\ ~StartsWith(rs_given[i], <<"/">>))
                  => rs_subreddits[i] = rs_given[i]

Events(what, s) == {i \in 1..Len(rd_events) : rd_events[i] = Event(what, s)}

\* C29: with a non-zero rate_limit fetch calls RateLimiter.acquire() exactly
\* once for each subreddit it handles, that call has returned before the
\* subreddit's listing request is issued, and no acquire() belongs to a
\* comment fetch: acquire() calls and listing requests are in one-to-one
\* correspondence. With rate_limit None or 0 there is no limiter and no
\* acquire().
C29_OneAcquirePerListing ==
    /\ rd_rate_limiter <=> (~rd_rate_limit.is_none /\ rd_rate_limit.value /= 0)
    /\ \A s \in 1..MaxTargets + 1 :
          /\ Cardinality(Events("acquire", s)) <= 1
          /\ Cardinality(Events("listing", s)) <= 1
          /\ IF ~rd_rate_limit.is_none /\ rd_rate_limit.value /= 0
             THEN /\ Events("listing", s) /= {} =>
                        /\ Events("acquired", s) /= {}
                        /\ \A a \in Events("acquired", s), l \in Events("listing", s) : a < l
                  /\ Events("acquired", s) /= {} =>
                        \A c \in Events("acquire", s), a \in Events("acquired", s) : c < a
                  /\ (s < rd_s \/ (s = rd_s /\ rd_pc \notin {"enter", "raised"}))
                        <=> Cardinality(Events("acquire", s)) = 1
             ELSE Events("acquire", s) = {} /\ Events("acquired", s) = {}
    /\ rd_pc = "returned" /\ rd_rate_limiter =>
          Cardinality({i \in 1..Len(rd_events) : rd_events[i].what = "acquire"}) = rd_subreddits

C29_Witness ==
    /\ rd_pc = "returned"
    /\ rd_rate_limiter
    /\ rd_subreddits > 1
    /\ Events("comments", 1) /= {}
    /\ Cardinality({i \in 1..Len(rd_events) : rd_events[i].what = "acquire"}) = rd_subreddits

\* ------------------------------------- RateLimiter: fair scheduling: claims

\* C30: for a RateLimiter of capacity C >= 1 and finitely many concurrent
\* callers, under fair scheduling every acquire() eventually returns: the
\* lock is held only by a caller asleep inside acquire(), so it is released
\* after each refill-and-debit step and after each sleep, and no caller
\* waits for the lock or sleeps forever.
C30_EveryAcquireReturns ==
    /\ [](locked => \E p \in Callers : pc[p] = "sleeping")
    /\ \A p \in Callers : (pc[p] /= "idle") ~> (pc[p] = "idle")

C30_Witness ==
    /\ ndone = MaxCalls
    /\ nosleep < ndone
    /\ now > MaxTime
    /\ \A p \in Callers : pc[p] = "idle"

\* ------------------------------------------------ result status: claims

StatusAndError(r) ==
    /\ r.status \in {"success", "failed"}
    /\ r.error /= "None" <=> r.status = "failed"

\* C27: every result that GNewsCollector.fetch or PyTrendsCollector.fetch
\* returns, and every YouTubeVideo in the list YouTubeCollector.fetch
\* returns, has status 'success' or 'failed', and its error is set exactly
\* when the status is 'failed'.
C27_StatusAndError ==
    /\ gn_pc = "returned" => StatusAndError(gn_result)
    /\ pt_pc = "returned" => StatusAndError(pt_result)
    /\ yt_pc = "returned" =>
          \A i \in 1..Len(yt_videos) : yt_videos[i].isvideo /\ StatusAndError(yt_videos[i])

C27_Witness ==
    /\ yt_pc = "returned"
    /\ \E i, j \in 1..Len(yt_videos) :
          yt_videos[i].status = "success" /\ yt_videos[j].status = "failed"

====
